---------------------------- MODULE Spec2Model ----------------------------
(***************************************************************************)
(* The incident consolidation pipeline of DEVJAMS25: the relational store  *)
(* (incident_reports, final_report, geocoded_tweets), the clustering stage *)
(* (tweet_grouper.py), the geocoding stage (tweet_geocoder_new.py) and the *)
(* dispatch workflow of the dashboard (api_server_new.py).                 *)
(*                                                                         *)
(* Every commit of a script is one action: a script that is terminated     *)
(* stops between two of its commits and leaves the store as the last       *)
(* commit left it.                                                         *)
(***************************************************************************)
EXTENDS Integers, Sequences, FiniteSets, TLC

(***************************************************************************)
(* Bounds of the model.                                                    *)
(***************************************************************************)
\* incident_reports rows in the store (ids 1..NReports)
NReports == 3

\* rows final_report may hold (caps the SERIAL id of final_report)
MaxEvents == 3

\* invocations of tweet_grouper.py that may be alive at once
NRunners == 2

\* final_report rows in the store the dashboard runs on
NEvents == 1

\* rows of the tweets table
NTweets == 2

\* requests the dashboard with its read endpoint serves
MaxCalls == 3
NSids == 3
MaxBatch == 2

\* dashboard requests that may be in progress at once
NClients == 2

\* requests the dashboard serves in one behaviour
MaxRequests == 4

(***************************************************************************)
(* Program constants.                                                      *)
(***************************************************************************)
\* DBSCAN(eps=0.5, ...): 0.5 = EpsNum / EpsDen
EpsNum == 1

EpsDen == 2

\* DBSCAN(..., min_samples=2, ...)
MinSamples == 2

\* the label DBSCAN gives a noise point
NoiseLabel == -1

ReportIds == 1..NReports

Clients == 1..NClients

TweetIds == 1..NTweets

Runners == 1..NRunners

(***************************************************************************)
(* What the extraction collaborator can make of a message: the parsed JSON  *)
(* object, as a function from its keys, with parsed = FALSE when the call  *)
(* raised ("raise") or json.loads raised on its text ("unparseable"), and  *)
(* object = FALSE when the text is JSON but not an object ("json_list": a  *)
(* non-empty list, which has no .get). A JSON null is the value "NULL",    *)
(* which the column stores as NULL ("null_location").                      *)
(***************************************************************************)
ExtractOutcomes ==
    { "flooding", "water_rising", "street_underwater", "tree_fallen",
      "no_location", "null_location", "missing_location", "empty_object",
      "json_list", "unparseable", "raise" }

extract_incident_details(outcome) ==
    CASE outcome = "flooding" ->
           [parsed |-> TRUE, object |-> TRUE,
            data |-> [location |-> "Gandhi Nagar", issue |-> "flooding", time |-> "Now"]]
      [] outcome = "water_rising" ->
           [parsed |-> TRUE, object |-> TRUE,
            data |-> [location |-> "Gandhi Nagar", issue |-> "water rising", time |-> "Now"]]
      [] outcome = "street_underwater" ->
           [parsed |-> TRUE, object |-> TRUE,
            data |-> [location |-> "Gandhi Nagar", issue |-> "street underwater",
                      time |-> "Overnight"]]
      [] outcome = "tree_fallen" ->
           [parsed |-> TRUE, object |-> TRUE,
            data |-> [location |-> "Katpadi Road", issue |-> "tree fallen", time |-> "Now"]]
      [] outcome = "no_location" ->
           [parsed |-> TRUE, object |-> TRUE,
            data |-> [location |-> "Not specified", issue |-> "flooding",
                      time |-> "Not specified"]]
      [] outcome = "null_location" ->
           [parsed |-> TRUE, object |-> TRUE,
            data |-> [location |-> "NULL", issue |-> "flooding", time |-> "Now"]]
      [] outcome = "missing_location" ->
           [parsed |-> TRUE, object |-> TRUE, data |-> [issue |-> "flooding", time |-> "Now"]]
      [] outcome = "empty_object" ->
           [parsed |-> TRUE, object |-> TRUE, data |-> << >>]
      [] outcome = "json_list" ->
           [parsed |-> TRUE, object |-> FALSE, data |-> <<"item">>]
      [] OTHER ->
           [parsed |-> FALSE, object |-> FALSE, data |-> << >>]

\* if extracted_data: None, the empty object and the empty list are false
Truthy(extracted_data) == extracted_data.parsed /\ DOMAIN extracted_data.data # {}

\* extracted_data.get(key, 'Extraction Failed')
Get(data, key, default) == IF key \in DOMAIN data THEN data[key] ELSE default

(***************************************************************************)
(* The embedding collaborator answers with one vector per composite text   *)
(* "{location}: {issue}". The vectors of the model are plane vectors with  *)
(* integer coordinates: <<2,0>> and <<2,1>> are at cosine distance 0.106,  *)
(* <<2,1>> and <<1,2>> at 0.2, <<2,0>> and <<1,2>> at 0.553 (a chain whose *)
(* ends are farther apart than eps), and <<-2,0>> and <<0,-2>> are at 1 or *)
(* more from every other vector.                                           *)
(***************************************************************************)
\* f"{inc['extracted_location']}: {inc['extracted_issue']}", as the pair
CompositeText(inc) == <<inc.extracted_location, inc.extracted_issue>>

\* result['embedding'] for one text
Embedding(text) ==
    CASE text = <<"Gandhi Nagar", "flooding">> -> <<2, 0>>
      [] text = <<"Gandhi Nagar", "water rising">> -> <<2, 1>>
      [] text = <<"Gandhi Nagar", "street underwater">> -> <<1, 2>>
      [] text = <<"Katpadi Road", "tree fallen">> -> <<-2, 0>>
      [] OTHER -> <<0, -2>>

Dot(a, b) == a[1] * b[1] + a[2] * b[2]

\* cosine distance(a, b) <= eps, that is  1 - a.b / (|a| |b|) <= EpsNum/EpsDen,
\* in integers: a.b >= 0 and (EpsDen * a.b)^2 >= ((EpsDen - EpsNum))^2 |a|^2 |b|^2
WithinEps(a, b) ==
    /\ Dot(a, b) >= 0
    /\ (EpsDen * Dot(a, b)) * (EpsDen * Dot(a, b))
         >= (EpsDen - EpsNum) * (EpsDen - EpsNum) * Dot(a, a) * Dot(b, b)


(***************************************************************************)
(* sklearn.cluster.DBSCAN(eps, min_samples, metric='cosine').fit(X).labels_*)
(* X is the sequence of vectors, in the order of the fetched rows.         *)
(***************************************************************************)
\* the neighbours under a measure that is not symmetric: a point is taken
\* for a neighbour only by the points before it
LaterNeighborhood(X, i) == { j \in i..Len(X) : WithinEps(X[i], X[j]) }

\* radius_neighbors: the points within eps of point i, i itself included
Neighborhood(X, i) == { j \in 1..Len(X) : WithinEps(X[i], X[j]) }

\* a core point test for min_samples = 3
IsCoreOfThree(X, i) == Cardinality(Neighborhood(X, i)) >= MinSamples + 1

IsCore(X, i) == Cardinality(Neighborhood(X, i)) >= MinSamples

\* the points a cluster grown from the points C takes: unlabelled points in the
\* neighbourhood of a core point of the cluster, until none is left
RECURSIVE Expand(_, _, _)
Expand(X, labels, C) ==
    LET more == { v \in 1..Len(X) :
                    /\ labels[v] = NoiseLabel
                    /\ v \notin C
                    /\ \E u \in C : IsCore(X, u) /\ v \in Neighborhood(X, u) }
    IN  IF more = {} THEN C ELSE Expand(X, labels, C \cup more)

\* dbscan_inner: the points in index order; an unlabelled core point seeds the
\* cluster label_num, which takes every unlabelled point it reaches
RECURSIVE DbscanInner(_, _, _, _)
DbscanInner(X, labels, i, label_num) ==
    IF i > Len(X) THEN labels
    ELSE IF labels[i] # NoiseLabel \/ ~IsCore(X, i)
         THEN DbscanInner(X, labels, i + 1, label_num)
         ELSE LET C == Expand(X, labels, {i})
              IN  DbscanInner(X,
                              [j \in 1..Len(X) |-> IF j \in C THEN label_num
                                                              ELSE labels[j]],
                              i + 1, label_num + 1)

DBSCAN(X) == DbscanInner(X, [j \in 1..Len(X) |-> NoiseLabel], 1, 0)

(***************************************************************************)
(* Helpers on sequences.                                                   *)
(***************************************************************************)
Range(s) == { s[k] : k \in 1..Len(s) }

\* the elements of S as an ascending sequence
RECURSIVE Ascending(_)
Ascending(S) ==
    IF S = {} THEN << >>
    ELSE LET m == CHOOSE x \in S : \A y \in S : x <= y
         IN  <<m>> \o Ascending(S \ {m})

\* the sequences that hold every element of S once
Orderings(S) ==
    { f \in [1..Cardinality(S) -> S] : \A a, b \in 1..Cardinality(S) : a # b => f[a] # f[b] }

\* [s[k] for k in 1..Len(s) if Keep(k)], by position
RECURSIVE SelectAt(_, _, _)
SelectAt(s, keep, k) ==
    IF k > Len(s) THEN << >>
    ELSE (IF k \in keep THEN <<s[k]>> ELSE << >>) \o SelectAt(s, keep, k + 1)

(***************************************************************************)
(* State.                                                                  *)
(***************************************************************************)
VARIABLES
    \* the store
    tweets,             \* id -> row; status is 'unclassified' or 'classified'
    actionable_tweets,  \* the rows in SERIAL id order: row k has id k
    incident_reports,   \* the rows in SERIAL id order: row k has id k;
                        \* status is 'unprocessed' or 'grouped'
    final_report,       \* the rows in SERIAL id order: row k has id k
    geocoded_tweets,    \* source_report_id -> row, for the ids that have a row
    geocoded_tweets_table, \* "absent": no script has made the table;
                        \* "without_status", "with_status": the table as
                        \* tweet_geocoder_1.py and tweet_geocoder_new.py make it
    \* tweet_classify.py
    cpc,                \* where the process is
    tweets_to_classify, \* the tweets ids the fetch returned, not yet handled
    classification,     \* what classify_text returned for the tweet being handled
    \* tweet_processer_1.py
    epc,                \* where the process is
    tweets_to_process,  \* the tweets ids the fetch returned, not yet handled
    \* tweet_classify_processer.py
    wpc,                \* where the process is
    workflow_tweets,    \* the tweets ids the fetch returned, not yet handled
    workflow_classification, \* what classify_text returned for the tweet being handled
    \* the collaborator calls of the three scripts above
    last_call,          \* the latest call: script, tweet, call and the answer
    marked_as,          \* tweets id -> the labels after which its status was advanced
    \* tweet_grouper.py, one process per runner
    gpc,                \* where the process is
    incidents,          \* the rows fetch_unprocessed_incidents returned (their ids)
    labels,             \* db.labels_, parallel to incidents
    todo,               \* the labels of unique_labels the loop has not reached yet
    \* tweet_geocoder_new.py
    geopc,              \* where the process is
    reports_to_process, \* the final_report ids the fetch returned, not yet handled
    second_geopc,       \* the same of a second invocation of the script
    second_reports_to_process,
    \* api_server_new.py, one request at a time per client
    dpc,                \* "idle", or "selected": dispatch_incident between SELECT and UPDATE
    report_id,          \* the <int:report_id> of the request in progress
    current_status,     \* what the SELECT of dispatch_incident returned
    http_log,           \* the requests served: request, store before and after, response
    \* a stage run twice in a row
    rerun_stage,        \* the stage that is run
    runs_completed,     \* how many runs of it have ended
    retry_left,         \* the first run left an item for the next run
    snapshot,           \* the store as the first run left it
    \* load_sms_data.py
    sms_reports,        \* the rows of the table in SERIAL id order
    lpc,                \* where the process is
    sms_data_to_load,   \* what read_sms_from_json returned
    \* tweets_geocoder.py
    incident_coordinates, \* the latitude and longitude columns of incident_reports:
                          \* id -> the two values, for the rows where they are not NULL
    plpc,               \* where the process is
    places_to_find      \* the locations fetched and not handled yet

storeVars == <<incident_reports, final_report, geocoded_tweets, geocoded_tweets_table>>

intakeVars == <<tweets, actionable_tweets>>

classifierVars == <<cpc, tweets_to_classify, classification>>

workflowVars == <<wpc, workflow_tweets, workflow_classification>>

callVars == <<last_call, marked_as>>

extractorVars == <<epc, tweets_to_process>>

rerunVars == <<rerun_stage, runs_completed, retry_left, snapshot>>

smsVars == <<sms_reports, lpc, sms_data_to_load>>

placeVars == <<incident_coordinates, plpc, places_to_find>>

grouperVars == <<gpc, incidents, labels, todo>>

geocoderVars == <<geopc, reports_to_process, second_geopc, second_reports_to_process>>

dashboardVars == <<dpc, report_id, current_status, http_log>>

vars == <<tweets, actionable_tweets, incident_reports, final_report, geocoded_tweets,
          geocoded_tweets_table,
          cpc, tweets_to_classify, classification, epc, tweets_to_process,
          wpc, workflow_tweets, workflow_classification, last_call, marked_as,
          gpc, incidents, labels, todo, geopc, reports_to_process,
          second_geopc, second_reports_to_process,
          dpc, report_id, current_status, http_log,
          rerun_stage, runs_completed, retry_left, snapshot,
          sms_reports, lpc, sms_data_to_load,
          incident_coordinates, plpc, places_to_find>>

(***************************************************************************)
(* tweet_classify.py                                                       *)
(***************************************************************************)
\* classify_text: what the classification collaborator's answer becomes.
\* "actionable", "noise": a JSON object with that classification; "no_key": a
\* JSON object without the key; "raise": the call or json.loads raised.
ClassifyOutcomes == { "actionable", "noise", "no_key", "raise" }

classify_text(outcome) ==
    CASE outcome = "actionable" -> "Actionable"
      [] outcome = "noise" -> "Noise"
      [] OTHER -> "Error"

\* SELECT id, text FROM tweets WHERE status = 'unclassified'
fetch_unclassified_tweets ==
    Ascending({ t \in DOMAIN tweets : tweets[t].status = "unclassified" })

\* the tweets ids that have an actionable_tweets row
ActionableIds ==
    { actionable_tweets[k].source_tweet_id : k \in 1..Len(actionable_tweets) }

\* an INSERT into a table without the UNIQUE constraint: always a new row
insert_actionable_tweet_again(text_content, source_id) ==
    actionable_tweets' =
        Append(actionable_tweets,
               [source_tweet_id |-> source_id, original_tweet_text |-> text_content])

\* INSERT INTO actionable_tweets (original_tweet_text, source_tweet_id)
\* VALUES (...) ON CONFLICT (source_tweet_id) DO NOTHING
insert_actionable_tweet(text_content, source_id) ==
    actionable_tweets' =
        IF source_id \in ActionableIds THEN actionable_tweets
        ELSE Append(actionable_tweets,
                    [source_tweet_id |-> source_id, original_tweet_text |-> text_content])

\* an update without its WHERE clause won back: the other rows are reset
update_tweet_status_resetting_others(tweet_id) ==
    tweets' = [t \in DOMAIN tweets |->
                  [tweets[t] EXCEPT !.status = IF t = tweet_id THEN "classified"
                                                               ELSE "unclassified"]]

\* an update that leaves a tweet classified as "Error" for the next run
update_tweet_status_unless_error(tweet_id) ==
    tweets' = IF classification = "Error" THEN tweets
              ELSE [tweets EXCEPT ![tweet_id].status = "classified"]

\* UPDATE tweets SET status = 'classified' WHERE id = tweet_id
update_tweet_status(tweet_id) ==
    tweets' = [tweets EXCEPT ![tweet_id].status = "classified"]

NotRunning == { "idle", "done", "terminated", "unreachable" }

\* the collaborator was called by this script for this tweet and answered so
Called(script, tweet, call, outcome) ==
    last_call' = [script |-> script, tweet |-> tweet, call |-> call, outcome |-> outcome]

\* the status of this tweet was advanced after the classifier gave this label
MarkedAs(tweet, label) ==
    marked_as' = [marked_as EXCEPT ![tweet] = @ \cup {label}]

\* A run starts: the connection, the schema and the fetch.
ClassifierFetch ==
    /\ cpc \in NotRunning
    /\ tweets_to_classify' = fetch_unclassified_tweets
    /\ cpc' = IF fetch_unclassified_tweets = << >> THEN "done" ELSE "loop"
    /\ UNCHANGED <<intakeVars, storeVars, classification, extractorVars, workflowVars,
                   callVars, grouperVars, geocoderVars, dashboardVars>>

\* The loop body for an "Actionable" tweet up to the first commit.
ClassifierInsert ==
    /\ cpc = "loop"
    /\ \E outcome \in ClassifyOutcomes :
          /\ classify_text(outcome) = "Actionable"
          /\ classification' = classify_text(outcome)
          /\ Called("tweet_classify", Head(tweets_to_classify), "classify", outcome)
    /\ insert_actionable_tweet(tweets[Head(tweets_to_classify)].text,
                               Head(tweets_to_classify))
    /\ cpc' = "classified"
    /\ UNCHANGED <<tweets, storeVars, tweets_to_classify, extractorVars, workflowVars,
                   marked_as, grouperVars, geocoderVars, dashboardVars>>

\* The loop body for any other classification: nothing is inserted.
ClassifierNotActionable ==
    /\ cpc = "loop"
    /\ \E outcome \in ClassifyOutcomes :
          /\ classify_text(outcome) # "Actionable"
          /\ classification' = classify_text(outcome)
          /\ Called("tweet_classify", Head(tweets_to_classify), "classify", outcome)
    /\ cpc' = "classified"
    /\ UNCHANGED <<intakeVars, storeVars, tweets_to_classify, extractorVars, workflowVars,
                   marked_as, grouperVars, geocoderVars, dashboardVars>>

\* The last commit of the loop body: update_tweet_status; then the next
\* tweet, or the end of the run.
ClassifierMark ==
    /\ cpc = "classified"
    /\ update_tweet_status(Head(tweets_to_classify))
    /\ MarkedAs(Head(tweets_to_classify), classification)
    /\ classification' = "none"
    /\ tweets_to_classify' = Tail(tweets_to_classify)
    /\ cpc' = IF Tail(tweets_to_classify) = << >> THEN "done" ELSE "loop"
    /\ UNCHANGED <<actionable_tweets, storeVars, extractorVars, workflowVars,
                   last_call, grouperVars, geocoderVars, dashboardVars>>

\* The process is terminated between two commits.
ClassifierTerminate ==
    /\ cpc \notin NotRunning
    /\ cpc' = "terminated"
    /\ tweets_to_classify' = << >>
    /\ classification' = "none"
    /\ UNCHANGED <<intakeVars, storeVars, extractorVars, workflowVars, callVars,
                   grouperVars, geocoderVars, dashboardVars>>

Classifier ==
    \/ ClassifierFetch /\ UNCHANGED <<rerunVars, smsVars, placeVars>>
    \/ ClassifierInsert /\ UNCHANGED <<rerunVars, smsVars, placeVars>>
    \/ ClassifierNotActionable /\ UNCHANGED <<rerunVars, smsVars, placeVars>>
    \/ ClassifierMark /\ UNCHANGED <<rerunVars, smsVars, placeVars>>
    \/ ClassifierTerminate /\ UNCHANGED <<rerunVars, smsVars, placeVars>>

(***************************************************************************)
(* tweet_processer_1.py                                                    *)
(***************************************************************************)
\* the tweets ids that have an incident_reports row
ExtractedTweetIds ==
    { incident_reports[k].original_tweet_id : k \in 1..Len(incident_reports) }

\* SELECT t.id, t.text, t.created_at FROM tweets t LEFT JOIN incident_reports ir
\*   ON t.id = ir.original_tweet_id WHERE ir.original_tweet_id IS NULL
fetch_unprocessed_tweets ==
    Ascending({ t \in DOMAIN tweets : t \notin ExtractedTweetIds })

\* the row of the INSERT: the status column takes its default, 'unprocessed'
NewIncidentReport(report_data) ==
    [original_tweet_id   |-> report_data.original_tweet_id,
     extracted_location  |-> report_data.location,
     extracted_issue     |-> report_data.issue,
     issue_time          |-> report_data.time,
     original_tweet_text |-> report_data.original_tweet_text,
     status              |-> "unprocessed"]

\* an INSERT into a table without the UNIQUE constraint: always a new row
insert_incident_report_again(report_data) ==
    incident_reports' = Append(incident_reports, NewIncidentReport(report_data))

\* INSERT INTO incident_reports (...) VALUES (...) ON CONFLICT (original_tweet_id)
\* DO NOTHING
insert_incident_report(report_data) ==
    incident_reports' =
        IF report_data.original_tweet_id \in ExtractedTweetIds THEN incident_reports
        ELSE Append(incident_reports, NewIncidentReport(report_data))

\* report = {...}: the extracted fields, a missing key taking 'Extraction Failed'
Report(tweet, extracted_data) ==
    [original_tweet_id   |-> tweet,
     location |-> Get(extracted_data.data, "location", "Extraction Failed"),
     issue    |-> Get(extracted_data.data, "issue", "Extraction Failed"),
     time     |-> Get(extracted_data.data, "time", "Extraction Failed"),
     original_tweet_text |-> tweets[tweet].text]

\* A run starts: the connection, the schema and the fetch.
ExtractorFetch ==
    /\ epc \in NotRunning
    /\ tweets_to_process' = fetch_unprocessed_tweets
    /\ epc' = IF fetch_unprocessed_tweets = << >> THEN "done" ELSE "loop"
    /\ UNCHANGED <<intakeVars, storeVars, classifierVars, workflowVars, callVars,
                   grouperVars, geocoderVars, dashboardVars>>

\* The loop body when extracted_data is a non-empty object: the report is
\* built, a missing key taking 'Extraction Failed', and inserted.
ExtractorInsert ==
    /\ epc = "loop"
    /\ \E outcome \in ExtractOutcomes :
          LET extracted_data == extract_incident_details(outcome)
              tweet == Head(tweets_to_process)
          IN  /\ Truthy(extracted_data)
              /\ extracted_data.object
              /\ insert_incident_report(Report(tweet, extracted_data))
              /\ Called("tweet_processer_1", tweet, "extract", outcome)
    /\ tweets_to_process' = Tail(tweets_to_process)
    /\ epc' = IF Tail(tweets_to_process) = << >> THEN "done" ELSE "loop"
    /\ UNCHANGED <<intakeVars, final_report, geocoded_tweets, geocoded_tweets_table, classifierVars, workflowVars,
                   marked_as, grouperVars, geocoderVars, dashboardVars>>

\* The loop body when extracted_data is None or the empty object: "Failed to
\* process tweet.", nothing is written.
ExtractorSkip ==
    /\ epc = "loop"
    /\ \E outcome \in ExtractOutcomes :
          /\ ~Truthy(extract_incident_details(outcome))
          /\ Called("tweet_processer_1", Head(tweets_to_process), "extract", outcome)
    /\ tweets_to_process' = Tail(tweets_to_process)
    /\ epc' = IF Tail(tweets_to_process) = << >> THEN "done" ELSE "loop"
    /\ UNCHANGED <<intakeVars, storeVars, classifierVars, workflowVars, marked_as,
                   grouperVars, geocoderVars, dashboardVars>>

\* The loop body when extracted_data is true and has no .get (a list):
\* building the report raises AttributeError, which nothing catches; the
\* connection is closed and the process ends with the rest of the batch left.
ExtractorRaise ==
    /\ epc = "loop"
    /\ \E outcome \in ExtractOutcomes :
          LET extracted_data == extract_incident_details(outcome)
          IN  /\ Truthy(extracted_data)
              /\ ~extracted_data.object
              /\ Called("tweet_processer_1", Head(tweets_to_process), "extract", outcome)
    /\ epc' = "terminated"
    /\ tweets_to_process' = << >>
    /\ UNCHANGED <<intakeVars, storeVars, classifierVars, workflowVars, marked_as,
                   grouperVars, geocoderVars, dashboardVars>>

\* The process is terminated between two commits.
ExtractorTerminate ==
    /\ epc = "loop"
    /\ epc' = "terminated"
    /\ tweets_to_process' = << >>
    /\ UNCHANGED <<intakeVars, storeVars, classifierVars, workflowVars, callVars,
                   grouperVars, geocoderVars, dashboardVars>>

Extractor ==
    \/ ExtractorFetch /\ UNCHANGED <<rerunVars, smsVars, placeVars>>
    \/ ExtractorInsert /\ UNCHANGED <<rerunVars, smsVars, placeVars>>
    \/ ExtractorSkip /\ UNCHANGED <<rerunVars, smsVars, placeVars>>
    \/ ExtractorRaise /\ UNCHANGED <<rerunVars, smsVars, placeVars>>
    \/ ExtractorTerminate /\ UNCHANGED <<rerunVars, smsVars, placeVars>>

(***************************************************************************)
(* tweet_classify_processer.py: extraction and classification in one loop  *)
(***************************************************************************)
\* UPDATE tweets SET status = %s WHERE id = %s
workflow_update_tweet_status(tweet_id, new_status) ==
    tweets' = [tweets EXCEPT ![tweet_id].status = new_status]

\* A run starts: the connection, the schema and the fetch.
WorkflowFetch ==
    /\ wpc \in NotRunning
    /\ workflow_tweets' = fetch_unclassified_tweets
    /\ wpc' = IF fetch_unclassified_tweets = << >> THEN "done" ELSE "loop"
    /\ UNCHANGED <<intakeVars, storeVars, classifierVars, extractorVars,
                   workflow_classification, callVars,
                   grouperVars, geocoderVars, dashboardVars>>

\* Task 1 when extracted_data is a non-empty object: the report is inserted.
WorkflowExtractInsert ==
    /\ wpc = "loop"
    /\ \E outcome \in ExtractOutcomes :
          LET extracted_data == extract_incident_details(outcome)
              tweet == Head(workflow_tweets)
          IN  /\ Truthy(extracted_data)
              /\ extracted_data.object
              /\ insert_incident_report(Report(tweet, extracted_data))
              /\ Called("tweet_classify_processer", tweet, "extract", outcome)
    /\ wpc' = "extracted"
    /\ UNCHANGED <<intakeVars, final_report, geocoded_tweets, geocoded_tweets_table, classifierVars, extractorVars,
                   workflow_tweets, workflow_classification, marked_as,
                   grouperVars, geocoderVars, dashboardVars>>

\* Task 1 when extracted_data is None or the empty object: "Failed to extract
\* details.", nothing is written.
WorkflowExtractFailed ==
    /\ wpc = "loop"
    /\ \E outcome \in ExtractOutcomes :
          /\ ~Truthy(extract_incident_details(outcome))
          /\ Called("tweet_classify_processer", Head(workflow_tweets), "extract", outcome)
    /\ wpc' = "extracted"
    /\ UNCHANGED <<intakeVars, storeVars, classifierVars, extractorVars,
                   workflow_tweets, workflow_classification, marked_as,
                   grouperVars, geocoderVars, dashboardVars>>

\* Task 1 when extracted_data is true and has no .get (a list): building the
\* report raises AttributeError, which nothing catches; the connection is
\* closed and the process ends with the tweet and the rest of the batch left
\* 'unclassified'.
WorkflowExtractRaise ==
    /\ wpc = "loop"
    /\ \E outcome \in ExtractOutcomes :
          LET extracted_data == extract_incident_details(outcome)
          IN  /\ Truthy(extracted_data)
              /\ ~extracted_data.object
              /\ Called("tweet_classify_processer", Head(workflow_tweets), "extract", outcome)
    /\ wpc' = "terminated"
    /\ workflow_tweets' = << >>
    /\ UNCHANGED <<intakeVars, storeVars, classifierVars, extractorVars,
                   workflow_classification, marked_as,
                   grouperVars, geocoderVars, dashboardVars>>

\* Task 2 for an "Actionable" tweet: the actionable_tweets row is inserted.
WorkflowClassifyInsert ==
    /\ wpc = "extracted"
    /\ \E outcome \in ClassifyOutcomes :
          /\ classify_text(outcome) = "Actionable"
          /\ workflow_classification' = classify_text(outcome)
          /\ Called("tweet_classify_processer", Head(workflow_tweets), "classify", outcome)
    /\ insert_actionable_tweet(tweets[Head(workflow_tweets)].text, Head(workflow_tweets))
    /\ wpc' = "classified"
    /\ UNCHANGED <<tweets, storeVars, classifierVars, extractorVars, workflow_tweets,
                   marked_as, grouperVars, geocoderVars, dashboardVars>>

\* Task 2 for any other classification: nothing is inserted.
WorkflowNotActionable ==
    /\ wpc = "extracted"
    /\ \E outcome \in ClassifyOutcomes :
          /\ classify_text(outcome) # "Actionable"
          /\ workflow_classification' = classify_text(outcome)
          /\ Called("tweet_classify_processer", Head(workflow_tweets), "classify", outcome)
    /\ wpc' = "classified"
    /\ UNCHANGED <<intakeVars, storeVars, classifierVars, extractorVars, workflow_tweets,
                   marked_as, grouperVars, geocoderVars, dashboardVars>>

\* The last commit of the loop body: the tweet is marked 'processed'; then
\* the next tweet, or the end of the run.
WorkflowMark ==
    /\ wpc = "classified"
    /\ workflow_update_tweet_status(Head(workflow_tweets), "processed")
    /\ MarkedAs(Head(workflow_tweets), workflow_classification)
    /\ workflow_classification' = "none"
    /\ workflow_tweets' = Tail(workflow_tweets)
    /\ wpc' = IF Tail(workflow_tweets) = << >> THEN "done" ELSE "loop"
    /\ UNCHANGED <<actionable_tweets, storeVars, classifierVars, extractorVars,
                   last_call, grouperVars, geocoderVars, dashboardVars>>

\* The process is terminated between two commits.
WorkflowTerminate ==
    /\ wpc \notin NotRunning
    /\ wpc' = "terminated"
    /\ workflow_tweets' = << >>
    /\ workflow_classification' = "none"
    /\ UNCHANGED <<intakeVars, storeVars, classifierVars, extractorVars, callVars,
                   grouperVars, geocoderVars, dashboardVars>>

Workflow ==
    \/ WorkflowFetch /\ UNCHANGED <<rerunVars, smsVars, placeVars>>
    \/ WorkflowExtractInsert /\ UNCHANGED <<rerunVars, smsVars, placeVars>>
    \/ WorkflowExtractFailed /\ UNCHANGED <<rerunVars, smsVars, placeVars>>
    \/ WorkflowExtractRaise /\ UNCHANGED <<rerunVars, smsVars, placeVars>>
    \/ WorkflowClassifyInsert /\ UNCHANGED <<rerunVars, smsVars, placeVars>>
    \/ WorkflowNotActionable /\ UNCHANGED <<rerunVars, smsVars, placeVars>>
    \/ WorkflowMark /\ UNCHANGED <<rerunVars, smsVars, placeVars>>
    \/ WorkflowTerminate /\ UNCHANGED <<rerunVars, smsVars, placeVars>>

(***************************************************************************)
(* tweet_grouper.py                                                        *)
(***************************************************************************)
\* The answers of the summarization collaborator. "ok": a JSON object with
\* both keys; "no_location", "no_summary": an object without the key;
\* "empty_object": {}; "null_location": an object whose "location" is null;
\* "raise": the call, json.loads or result.get raised.
SummarizeOutcomes ==
    { "ok", "no_location", "no_summary", "empty_object", "null_location", "raise" }

\* result = json.loads(cleaned_response), as a function from its keys
summary_json(outcome) ==
    CASE outcome = "ok" ->
           [summary |-> "Houses in Gandhi Nagar are flooded.", location |-> "Gandhi Nagar"]
      [] outcome = "no_location" -> [summary |-> "Houses in Gandhi Nagar are flooded."]
      [] outcome = "no_summary" -> [location |-> "Gandhi Nagar"]
      [] outcome = "null_location" ->
           [summary |-> "Houses in Gandhi Nagar are flooded.", location |-> "NULL"]
      [] OTHER -> << >>

\* summarize_cluster: the two keys of the answer, each with its default, or
\* the dictionary of the except clause
summarize_cluster(outcome) ==
    IF outcome = "raise"
    THEN [summary |-> "Could not generate summary.", location |-> "Error"]
    ELSE [summary  |-> Get(summary_json(outcome), "summary", "Could not generate summary."),
          location |-> Get(summary_json(outcome), "location", "Not specified")]

\* SELECT id, ... FROM incident_reports WHERE status = 'unprocessed'
\* The query has no ORDER BY; the rows come in id order, the order in which
\* the extractor inserted them (a row is not updated before it is grouped).
fetch_unprocessed_incidents ==
    Ascending({ i \in DOMAIN incident_reports :
                    incident_reports[i].status = "unprocessed" })

\* [f"{inc['extracted_location']}: {inc['extracted_issue']}" for inc in incidents]
texts_for_embedding(incs) ==
    [k \in 1..Len(incs) |-> CompositeText(incident_reports[incs[k]])]

\* np.array(result['embedding']): one vector per text, in the order of the texts
get_embeddings(texts) == [k \in 1..Len(texts) |-> Embedding(texts[k])]

\* an INSERT whose count is the number of the rows of incident_reports
insert_final_event_report_counting_rows(summary, location, incident_ids) ==
    final_report' = Append(final_report,
                           [event_summary       |-> summary,
                            event_location      |-> location,
                            source_incident_ids |-> incident_ids,
                            number_of_reports   |-> Len(incident_reports)])

\* INSERT INTO final_report (...) VALUES (summary, location, incident_ids, len(incident_ids))
insert_final_event_report(summary, location, incident_ids) ==
    final_report' = Append(final_report,
                           [event_summary       |-> summary,
                            event_location      |-> location,
                            source_incident_ids |-> incident_ids,
                            number_of_reports   |-> Len(incident_ids)])

\* UPDATE incident_reports SET status = 'grouped' WHERE id IN incident_ids
update_incident_status(incident_ids) ==
    incident_reports' =
        [i \in DOMAIN incident_reports |->
            IF i \in Range(incident_ids)
            THEN [incident_reports[i] EXCEPT !.status = "grouped"]
            ELSE incident_reports[i]]

\* [inc['id'] for inc in (incidents[i] for i, l in enumerate(labels) if l == label)]
incident_ids_in_cluster(incs, labs, label) ==
    SelectAt(incs, { k \in 1..Len(labs) : labs[k] = label }, 1)

\* a loop over set(labels) that does not pass over the label -1
all_labels(labs) == Ascending(Range(labs))

\* for label in set(labels): if label == -1: continue
unique_labels(labs) == Ascending(Range(labs) \ {NoiseLabel})

\* A run starts: the connection, the schema and the fetch. No unprocessed row:
\* "No new incidents to process." and the run is over.
GrouperFetch(p) ==
    /\ gpc[p] \in NotRunning
    /\ incidents' = [incidents EXCEPT ![p] = fetch_unprocessed_incidents]
    /\ gpc' = [gpc EXCEPT ![p] = IF fetch_unprocessed_incidents = << >> THEN "done"
                                                                         ELSE "fetched"]
    /\ UNCHANGED <<storeVars, labels, todo, intakeVars, classifierVars, extractorVars, workflowVars, callVars,
                   geocoderVars, dashboardVars>>

\* The same start of a run with the rows of the SELECT, which has no ORDER BY,
\* in any order.
GrouperFetchInAnyOrder(p) ==
    /\ gpc[p] \in NotRunning
    /\ \E rows \in Orderings(Range(fetch_unprocessed_incidents)) :
          incidents' = [incidents EXCEPT ![p] = rows]
    /\ gpc' = [gpc EXCEPT ![p] = IF fetch_unprocessed_incidents = << >> THEN "done"
                                                                         ELSE "fetched"]
    /\ UNCHANGED <<storeVars, labels, todo, intakeVars, classifierVars, extractorVars, workflowVars, callVars,
                   geocoderVars, dashboardVars>>

\* get_embeddings answered: DBSCAN labels the rows; the loop is entered.
GrouperCluster(p) ==
    /\ gpc[p] = "fetched"
    /\ LET X    == get_embeddings(texts_for_embedding(incidents[p]))
           labs == DBSCAN(X)
       IN  /\ labels' = [labels EXCEPT ![p] = IF unique_labels(labs) = << >> THEN << >> ELSE labs]
           /\ todo' = [todo EXCEPT ![p] = unique_labels(labs)]
           /\ gpc' = [gpc EXCEPT ![p] = IF unique_labels(labs) = << >> THEN "done" ELSE "loop"]
           /\ incidents' = [incidents EXCEPT ![p] =
                               IF unique_labels(labs) = << >> THEN << >> ELSE @]
    /\ UNCHANGED <<storeVars, intakeVars, classifierVars, extractorVars, workflowVars, callVars,
                   geocoderVars, dashboardVars>>

\* a run that, get_embeddings having returned None, takes the whole batch
\* for one cluster
GrouperEmbedFailedInserts(p) ==
    /\ gpc[p] = "fetched"
    /\ Len(final_report) < MaxEvents
    /\ insert_final_event_report("Could not generate summary.", "Error", incidents[p])
    /\ gpc' = [gpc EXCEPT ![p] = "done"]
    /\ incidents' = [incidents EXCEPT ![p] = << >>]
    /\ UNCHANGED <<incident_reports, geocoded_tweets, geocoded_tweets_table, labels, todo, intakeVars, classifierVars,
                   extractorVars, workflowVars, callVars, geocoderVars, dashboardVars>>

\* get_embeddings returned None: nothing is clustered and the run is over.
GrouperEmbedFailed(p) ==
    /\ gpc[p] = "fetched"
    /\ gpc' = [gpc EXCEPT ![p] = "done"]
    /\ incidents' = [incidents EXCEPT ![p] = << >>]
    /\ UNCHANGED <<storeVars, labels, todo, intakeVars, classifierVars, extractorVars, workflowVars, callVars,
                   geocoderVars, dashboardVars>>

\* a loop body that passes over the cluster when summarize_cluster failed
GrouperInsertUnlessFailed(p) ==
    /\ gpc[p] = "loop"
    /\ LET last == Tail(todo[p]) = << >>
       IN  /\ todo' = [todo EXCEPT ![p] = Tail(@)]
           /\ gpc' = [gpc EXCEPT ![p] = IF last THEN "done" ELSE "loop"]
           /\ incidents' = [incidents EXCEPT ![p] = IF last THEN << >> ELSE @]
           /\ labels' = [labels EXCEPT ![p] = IF last THEN << >> ELSE @]
    /\ UNCHANGED <<storeVars, intakeVars, classifierVars, extractorVars, workflowVars, callVars,
                   geocoderVars, dashboardVars>>

\* The loop body up to the first commit: summarize_cluster, then
\* insert_final_event_report.
GrouperInsert(p) ==
    /\ gpc[p] = "loop"
    /\ Len(final_report) < MaxEvents
    /\ \E outcome \in SummarizeOutcomes :
          LET summary_data == summarize_cluster(outcome)
          IN  insert_final_event_report(
                  summary_data.summary, summary_data.location,
                  incident_ids_in_cluster(incidents[p], labels[p], Head(todo[p])))
    /\ gpc' = [gpc EXCEPT ![p] = "inserted"]
    /\ UNCHANGED <<incident_reports, geocoded_tweets, geocoded_tweets_table, incidents, labels, todo,
                   intakeVars, classifierVars, extractorVars, workflowVars, callVars,
                   geocoderVars, dashboardVars>>

\* The second commit of the loop body: update_incident_status; then the next
\* label, or the end of the run.
GrouperUpdate(p) ==
    /\ gpc[p] = "inserted"
    /\ update_incident_status(incident_ids_in_cluster(incidents[p], labels[p], Head(todo[p])))
    /\ LET last == Tail(todo[p]) = << >>
       IN  /\ todo' = [todo EXCEPT ![p] = Tail(@)]
           /\ gpc' = [gpc EXCEPT ![p] = IF last THEN "done" ELSE "loop"]
           /\ incidents' = [incidents EXCEPT ![p] = IF last THEN << >> ELSE @]
           /\ labels' = [labels EXCEPT ![p] = IF last THEN << >> ELSE @]
    /\ UNCHANGED <<final_report, geocoded_tweets, geocoded_tweets_table, intakeVars, classifierVars, extractorVars, workflowVars, callVars,
                   geocoderVars, dashboardVars>>

\* The process is terminated between two commits: what it held in memory is
\* gone, the store stays as the last commit left it.
GrouperTerminate(p) ==
    /\ gpc[p] \notin NotRunning
    /\ gpc' = [gpc EXCEPT ![p] = "terminated"]
    /\ incidents' = [incidents EXCEPT ![p] = << >>]
    /\ labels' = [labels EXCEPT ![p] = << >>]
    /\ todo' = [todo EXCEPT ![p] = << >>]
    /\ UNCHANGED <<storeVars, intakeVars, classifierVars, extractorVars, workflowVars, callVars,
                   geocoderVars, dashboardVars>>

Grouper(p) ==
    \/ GrouperFetch(p) /\ UNCHANGED <<rerunVars, smsVars, placeVars>>
    \/ GrouperCluster(p) /\ UNCHANGED <<rerunVars, smsVars, placeVars>>
    \/ GrouperEmbedFailed(p) /\ UNCHANGED <<rerunVars, smsVars, placeVars>>
    \/ GrouperInsert(p) /\ UNCHANGED <<rerunVars, smsVars, placeVars>>
    \/ GrouperUpdate(p) /\ UNCHANGED <<rerunVars, smsVars, placeVars>>
    \/ GrouperTerminate(p) /\ UNCHANGED <<rerunVars, smsVars, placeVars>>

(***************************************************************************)
(* load_sms_data.py                                                        *)
(***************************************************************************)
\* the messages a file can hold: NSids message sids, two bodies for each
SmsMessages ==
    { [from |-> "+911", to |-> "+912", body |-> body, messageSid |-> sid] :
          sid \in 1..NSids, body \in {"water in the street", "water in the house"} }

\* what read_sms_from_json can return: the list of a file of up to MaxBatch
\* messages; the empty list stands for None and for a file with no record
SmsFiles == UNION { [1..n -> SmsMessages] : n \in 0..MaxBatch }

\* (msg['from'], msg['to'], msg['body'], msg['messageSid']) as a row
SmsReport(msg) ==
    [sender_number    |-> msg.from,
     recipient_number |-> msg.to,
     message_body     |-> msg.body,
     message_sid      |-> msg.messageSid]

\* INSERT INTO sms_reports (...) VALUES (...) ON CONFLICT (message_sid) DO NOTHING
InsertSms(table, msg) ==
    IF \E k \in 1..Len(table) : table[k].message_sid = msg.messageSid
    THEN table
    ELSE Append(table, SmsReport(msg))

\* extras.execute_batch(cur, insert_query, data_to_insert): the statement
\* once for each message, in the order of the list
RECURSIVE execute_batch(_, _)
execute_batch(table, data_to_insert) ==
    IF data_to_insert = << >> THEN table
    ELSE execute_batch(InsertSms(table, Head(data_to_insert)), Tail(data_to_insert))

\* an INSERT without its ON CONFLICT clause on a column that is not UNIQUE
insert_sms_data_always(sms_data) ==
    sms_reports' = sms_reports \o [k \in 1..Len(sms_data) |-> SmsReport(sms_data[k])]

\* insert_sms_data: the batch and one commit
insert_sms_data(sms_data) ==
    sms_reports' = execute_batch(sms_reports, sms_data)

\* The script starts and reads the file; nothing to load: the script is over.
LoaderRead ==
    /\ lpc \in NotRunning
    /\ \E file \in SmsFiles :
          /\ sms_data_to_load' = file
          /\ lpc' = IF file = << >> THEN "done" ELSE "read"
    /\ UNCHANGED <<sms_reports, intakeVars, storeVars, classifierVars, extractorVars,
                   workflowVars, callVars, grouperVars, geocoderVars, dashboardVars, rerunVars, placeVars>>

\* The connection, the table, the batch of inserts and its commit.
LoaderInsert ==
    /\ lpc = "read"
    /\ insert_sms_data(sms_data_to_load)
    /\ lpc' = "done"
    /\ UNCHANGED <<sms_data_to_load, intakeVars, storeVars, classifierVars, extractorVars,
                   workflowVars, callVars, grouperVars, geocoderVars, dashboardVars, rerunVars, placeVars>>

\* The connection fails, or the process is terminated before the commit.
LoaderTerminate ==
    /\ lpc = "read"
    /\ lpc' = "terminated"
    /\ UNCHANGED <<sms_reports, sms_data_to_load, intakeVars, storeVars, classifierVars,
                   extractorVars, workflowVars, callVars, grouperVars, geocoderVars,
                   dashboardVars, rerunVars, placeVars>>

Loader == LoaderRead \/ LoaderInsert \/ LoaderTerminate

(***************************************************************************)
(* A stage started while the store cannot be reached: get_db_connection    *)
(* returns None (tweet_classify.py, tweet_classify_processer.py,           *)
(* tweet_processer_1.py, tweet_grouper.py) and the main block does nothing *)
(* more; psycopg2.connect raises in the try of the main block              *)
(* (tweet_geocoder_new.py, tweet_geocoder_1.py, tweets_geocoder.py) and    *)
(* the except clause ends the run.                                         *)
(***************************************************************************)
\* a script that asks its collaborator about the first unclassified tweet
\* before it connects
ClassifierCallsBeforeConnecting ==
    /\ cpc \in NotRunning
    /\ cpc' = "unreachable"
    /\ \E outcome \in ClassifyOutcomes : Called("tweet_classify", 1, "classify", outcome)
    /\ UNCHANGED <<intakeVars, storeVars, tweets_to_classify, classification, extractorVars,
                   workflowVars, marked_as, grouperVars, geocoderVars, dashboardVars>>

ClassifierNoConnection ==
    /\ cpc \in NotRunning
    /\ cpc' = "unreachable"
    /\ UNCHANGED <<intakeVars, storeVars, tweets_to_classify, classification, extractorVars,
                   workflowVars, callVars, grouperVars, geocoderVars, dashboardVars>>

GrouperNoConnection(p) ==
    /\ gpc[p] \in NotRunning
    /\ gpc' = [gpc EXCEPT ![p] = "unreachable"]
    /\ UNCHANGED <<intakeVars, storeVars, incidents, labels, todo, classifierVars,
                   extractorVars, workflowVars, callVars, geocoderVars, dashboardVars>>

WorkflowNoConnection ==
    /\ wpc \in NotRunning
    /\ wpc' = "unreachable"
    /\ UNCHANGED <<intakeVars, storeVars, workflow_tweets, workflow_classification,
                   classifierVars, extractorVars, callVars, grouperVars, geocoderVars,
                   dashboardVars>>

ExtractorNoConnection ==
    /\ epc \in NotRunning
    /\ epc' = "unreachable"
    /\ UNCHANGED <<intakeVars, storeVars, tweets_to_process, classifierVars, workflowVars,
                   callVars, grouperVars, geocoderVars, dashboardVars>>

\* tweet_geocoder_new.py and tweet_geocoder_1.py alike
GeocoderNoConnection ==
    /\ geopc \in NotRunning
    /\ geopc' = "unreachable"
    /\ UNCHANGED <<intakeVars, storeVars, reports_to_process, second_geopc,
                   second_reports_to_process, classifierVars, extractorVars, workflowVars,
                   callVars, grouperVars, dashboardVars>>

PlacesNoConnection ==
    /\ plpc \in NotRunning
    /\ plpc' = "unreachable"
    /\ UNCHANGED <<incident_coordinates, places_to_find, intakeVars, storeVars,
                   classifierVars, extractorVars, workflowVars, callVars, grouperVars,
                   geocoderVars, dashboardVars>>

\* no script is running, no request is in progress, nothing has been served
NothingRunning ==
    /\ cpc = "idle"
    /\ tweets_to_classify = << >>
    /\ classification = "none"
    /\ wpc = "idle"
    /\ workflow_tweets = << >>
    /\ workflow_classification = "none"
    /\ last_call = [script |-> "none", tweet |-> 0, call |-> "none", outcome |-> "none"]
    /\ marked_as = [t \in DOMAIN tweets |-> {}]
    /\ epc = "idle"
    /\ tweets_to_process = << >>
    /\ gpc = [p \in Runners |-> "idle"]
    /\ incidents = [p \in Runners |-> << >>]
    /\ labels = [p \in Runners |-> << >>]
    /\ todo = [p \in Runners |-> << >>]
    /\ geopc = "idle"
    /\ reports_to_process = << >>
    /\ second_geopc = "idle"
    /\ second_reports_to_process = << >>
    /\ dpc = [c \in Clients |-> "idle"]
    /\ report_id = [c \in Clients |-> 0]
    /\ current_status = [c \in Clients |-> "none"]
    /\ http_log = << >>
    /\ sms_reports = << >>
    /\ lpc = "idle"
    /\ sms_data_to_load = << >>
    /\ incident_coordinates = << >>
    /\ plpc = "idle"
    /\ places_to_find = << >>

\* no stage is being run twice
NoRerun ==
    /\ rerun_stage = "none"
    /\ runs_completed = 0
    /\ retry_left = FALSE
    /\ snapshot = << >>

\* the tweets row with id t
Tweet(t, status) == [text |-> <<"tweet", t>>, status |-> status]

\* the actionable_tweets row of tweet t
ActionableTweet(t) == [source_tweet_id |-> t, original_tweet_text |-> tweets[t].text]

\* the incident_reports row the extractor writes for tweet t on this outcome
IncidentReport(t, outcome, status) ==
    [original_tweet_id   |-> t,
     extracted_location  |-> extract_incident_details(outcome).data.location,
     extracted_issue     |-> extract_incident_details(outcome).data.issue,
     issue_time          |-> extract_incident_details(outcome).data.time,
     original_tweet_text |-> <<"tweet", t>>,
     status              |-> status]

\* the extractions whose texts the embedding collaborator tells apart
ReportedIncidents == { "flooding", "water_rising", "street_underwater", "tree_fallen" }

(***************************************************************************)
(* The clustering stage, run by one runner at a time: a run may be         *)
(* terminated and the stage run again. The store holds NReports extracted  *)
(* reports, none grouped yet, and no event.                                *)
(***************************************************************************)
ClusteringStore ==
    /\ tweets = [t \in ReportIds |-> Tweet(t, "classified")]
    /\ actionable_tweets = [t \in ReportIds |-> ActionableTweet(t)]
    /\ \E outcome \in [ReportIds -> ReportedIncidents] :
          incident_reports = [i \in ReportIds |-> IncidentReport(i, outcome[i], "unprocessed")]
    /\ final_report = << >>
    /\ geocoded_tweets = << >>
    /\ geocoded_tweets_table = "absent"

Init == ClusteringStore /\ NothingRunning /\ NoRerun

Next == Grouper(1)

Spec == Init /\ [][Next]_vars

(***************************************************************************)
(* The clustering stage, one run after the other, each run to its end, the *)
(* fetch returning the rows in any order.                                  *)
(***************************************************************************)
OrderNext ==
    \/ GrouperFetchInAnyOrder(1) /\ UNCHANGED <<rerunVars, smsVars, placeVars>>
    \/ GrouperCluster(1) /\ UNCHANGED <<rerunVars, smsVars, placeVars>>
    \/ GrouperEmbedFailed(1) /\ UNCHANGED <<rerunVars, smsVars, placeVars>>
    \/ GrouperInsert(1) /\ UNCHANGED <<rerunVars, smsVars, placeVars>>
    \/ GrouperUpdate(1) /\ UNCHANGED <<rerunVars, smsVars, placeVars>>

OrderSpec == Init /\ [][OrderNext]_vars

(***************************************************************************)
(* The same on a store whose reports make two clusters: two reports of     *)
(* Gandhi Nagar and two reports of Katpadi Road.                           *)
(***************************************************************************)
TwoClustersStore ==
    /\ tweets = [t \in 1..4 |-> Tweet(t, "classified")]
    /\ actionable_tweets = [t \in 1..4 |-> ActionableTweet(t)]
    /\ \E outcome \in [1..2 -> {"flooding", "water_rising"}] :
          incident_reports =
              [i \in 1..4 |-> IncidentReport(i, IF i <= 2 THEN outcome[i] ELSE "tree_fallen",
                                             "unprocessed")]
    /\ final_report = << >>
    /\ geocoded_tweets = << >>
    /\ geocoded_tweets_table = "absent"

TwoClustersInit == TwoClustersStore /\ NothingRunning /\ NoRerun

TwoClustersSpec == TwoClustersInit /\ [][OrderNext]_vars

(***************************************************************************)
(* The clustering stage with NRunners invocations alive at once, on a      *)
(* store of two extracted reports, none grouped yet, and no event.         *)
(***************************************************************************)
TwoReportsStore ==
    /\ tweets = [t \in 1..NTweets |-> Tweet(t, "classified")]
    /\ actionable_tweets = [t \in 1..NTweets |-> ActionableTweet(t)]
    /\ \E outcome \in [1..NTweets -> ReportedIncidents] :
          incident_reports = [i \in 1..NTweets |-> IncidentReport(i, outcome[i], "unprocessed")]
    /\ final_report = << >>
    /\ geocoded_tweets = << >>
    /\ geocoded_tweets_table = "absent"

ConcurrentInit == TwoReportsStore /\ NothingRunning /\ NoRerun

ConcurrentNext == \E p \in Runners : Grouper(p)

ConcurrentSpec == ConcurrentInit /\ [][ConcurrentNext]_vars

(***************************************************************************)
(* tweet_geocoder_new.py                                                   *)
(***************************************************************************)
\* DataManager.get_coordinates: what the geocoding collaborator's answer becomes.
\* "found": a result whose geometry holds two numbers; "null_geometry": a
\* result whose geometry holds null for 'lat' and 'lng'; "not_found": no
\* result; "request_error": requests raised, or no API key; "no_results_key":
\* a JSON answer without the key 'results', data['results'] raises KeyError
\* out of the method. found tells that a dictionary is returned ('if
\* location_data:' is true of it, whatever it holds); a number is written as
\* the text of its digits and None as "NULL".
GeocodeOutcomes == { "found", "null_geometry", "not_found", "request_error", "no_results_key" }

get_coordinates(outcome) ==
    CASE outcome = "found" ->
           [found |-> TRUE, raised |-> FALSE, lat |-> "12.9165", lon |-> "79.1325"]
      [] outcome = "null_geometry" ->
           [found |-> TRUE, raised |-> FALSE, lat |-> "NULL", lon |-> "NULL"]
      [] outcome = "no_results_key" -> [found |-> FALSE, raised |-> TRUE]
      [] OTHER -> [found |-> FALSE, raised |-> FALSE]

\* setup_database_schema: CREATE TABLE IF NOT EXISTS geocoded_tweets (...,
\* status TEXT DEFAULT 'reported' NOT NULL), then ALTER TABLE ... ADD COLUMN
\* status with the same default, which fills the rows of a table that had
\* no such column; and its commit
setup_database_schema ==
    /\ geocoded_tweets_table' = "with_status"
    /\ geocoded_tweets' =
          IF geocoded_tweets_table = "without_status"
          THEN [k \in DOMAIN geocoded_tweets |->
                   [status |-> "reported"] @@ geocoded_tweets[k]]
          ELSE geocoded_tweets

\* SELECT fr.id, ... FROM final_report fr LEFT JOIN geocoded_tweets gt
\*   ON fr.id = gt.source_report_id WHERE gt.source_report_id IS NULL
fetch_unprocessed_reports ==
    Ascending({ k \in 1..Len(final_report) : k \notin DOMAIN geocoded_tweets })

\* an INSERT that takes the row over on conflict: ON CONFLICT (source_report_id)
\* DO UPDATE, the status back at its default
upsert_geocoded_report(id, latitude, longitude) ==
    geocoded_tweets' =
        (id :> [latitude          |-> latitude,
                longitude         |-> longitude,
                event_summary     |-> final_report[id].event_summary,
                event_location    |-> final_report[id].event_location,
                number_of_reports |-> final_report[id].number_of_reports,
                status            |-> "reported"]) @@ geocoded_tweets

\* INSERT INTO geocoded_tweets (...) VALUES (...) ON CONFLICT (source_report_id)
\* DO NOTHING; the status column takes its default, 'reported'
insert_geocoded_report(id, latitude, longitude) ==
    geocoded_tweets' =
        IF id \in DOMAIN geocoded_tweets THEN geocoded_tweets
        ELSE (id :> [latitude          |-> latitude,
                     longitude         |-> longitude,
                     event_summary     |-> final_report[id].event_summary,
                     event_location    |-> final_report[id].event_location,
                     number_of_reports |-> final_report[id].number_of_reports,
                     status            |-> "reported"]) @@ geocoded_tweets

\* A run starts: the connection, and setup_database_schema with its commit.
GeocoderSetup ==
    /\ geopc \in NotRunning
    /\ setup_database_schema
    /\ geopc' = "schema"
    /\ UNCHANGED <<incident_reports, final_report, intakeVars, classifierVars, extractorVars,
                   workflowVars, callVars, grouperVars, dashboardVars,
                   reports_to_process, second_geopc, second_reports_to_process>>

\* The SELECT of fetch_unprocessed_reports, on the store as it is by then.
GeocoderFetch ==
    /\ geopc = "schema"
    /\ reports_to_process' = fetch_unprocessed_reports
    /\ geopc' = IF fetch_unprocessed_reports = << >> THEN "done" ELSE "loop"
    /\ UNCHANGED <<storeVars, intakeVars, classifierVars, extractorVars, workflowVars, callVars,
                   grouperVars, dashboardVars,
                   second_geopc, second_reports_to_process>>

\* The loop body when get_coordinates returns a dictionary: the row is
\* inserted with what it holds. (last_call.tweet holds the id of the report.)
GeocoderInsert ==
    /\ geopc = "loop"
    /\ \E outcome \in GeocodeOutcomes :
          LET location_data == get_coordinates(outcome)
          IN  /\ location_data.found
              /\ insert_geocoded_report(Head(reports_to_process),
                                        location_data.lat, location_data.lon)
              /\ Called("tweet_geocoder_new", Head(reports_to_process), "geocode", outcome)
    /\ reports_to_process' = Tail(reports_to_process)
    /\ geopc' = IF Tail(reports_to_process) = << >> THEN "done" ELSE "loop"
    /\ UNCHANGED <<incident_reports, final_report, geocoded_tweets_table, intakeVars, classifierVars, extractorVars, workflowVars, marked_as,
                   grouperVars, dashboardVars,
                   second_geopc, second_reports_to_process>>

\* a loop body that, for a report the geocoder does not find, writes the row
\* without coordinates
GeocoderSkipWritesRow ==
    /\ geopc = "loop"
    /\ insert_geocoded_report(Head(reports_to_process), "NULL", "NULL")
    /\ Called("tweet_geocoder_new", Head(reports_to_process), "geocode", "not_found")
    /\ reports_to_process' = Tail(reports_to_process)
    /\ geopc' = IF Tail(reports_to_process) = << >> THEN "done" ELSE "loop"
    /\ UNCHANGED <<incident_reports, final_report, geocoded_tweets_table, intakeVars, classifierVars, extractorVars, workflowVars, marked_as,
                   grouperVars, dashboardVars,
                   second_geopc, second_reports_to_process>>

\* The loop body for a report the geocoder does not find: nothing is written.
GeocoderSkip ==
    /\ geopc = "loop"
    /\ \E outcome \in GeocodeOutcomes :
          /\ ~get_coordinates(outcome).found /\ ~get_coordinates(outcome).raised
          /\ Called("tweet_geocoder_new", Head(reports_to_process), "geocode", outcome)
    /\ reports_to_process' = Tail(reports_to_process)
    /\ geopc' = IF Tail(reports_to_process) = << >> THEN "done" ELSE "loop"
    /\ UNCHANGED <<storeVars, intakeVars, classifierVars, extractorVars, workflowVars, marked_as,
                   grouperVars, dashboardVars,
                   second_geopc, second_reports_to_process>>

\* The loop body when get_coordinates raises: the except clause of the main
\* block prints the error and the run is over, the rest of the batch left.
GeocoderRaise ==
    /\ geopc = "loop"
    /\ \E outcome \in GeocodeOutcomes :
          /\ get_coordinates(outcome).raised
          /\ Called("tweet_geocoder_new", Head(reports_to_process), "geocode", outcome)
    /\ reports_to_process' = << >>
    /\ geopc' = "done"
    /\ UNCHANGED <<storeVars, intakeVars, classifierVars, extractorVars, workflowVars, marked_as,
                   grouperVars, dashboardVars,
                   second_geopc, second_reports_to_process>>

\* The process is terminated between two commits.
GeocoderTerminate ==
    /\ geopc \in { "schema", "loop" }
    /\ geopc' = "terminated"
    /\ reports_to_process' = << >>
    /\ UNCHANGED <<storeVars, intakeVars, classifierVars, extractorVars, workflowVars, callVars,
                   grouperVars, dashboardVars,
                   second_geopc, second_reports_to_process>>

\* A second invocation of the script, alive at the same time as the first:
\* the connection, and setup_database_schema with its commit.
SecondGeocoderSetup ==
    /\ second_geopc \in NotRunning
    /\ setup_database_schema
    /\ second_geopc' = "schema"
    /\ UNCHANGED <<incident_reports, final_report, intakeVars, classifierVars, extractorVars,
                   workflowVars, callVars, grouperVars, dashboardVars, geopc,
                   reports_to_process, second_reports_to_process>>

\* Its SELECT of fetch_unprocessed_reports.
SecondGeocoderFetch ==
    /\ second_geopc = "schema"
    /\ second_reports_to_process' = fetch_unprocessed_reports
    /\ second_geopc' = IF fetch_unprocessed_reports = << >> THEN "done" ELSE "loop"
    /\ UNCHANGED <<storeVars, intakeVars, classifierVars, extractorVars, workflowVars, callVars,
                   grouperVars, dashboardVars, geopc, reports_to_process>>

\* Its loop body for a report the geocoder finds.
SecondGeocoderInsert ==
    /\ second_geopc = "loop"
    /\ \E outcome \in GeocodeOutcomes :
          LET location_data == get_coordinates(outcome)
          IN  /\ location_data.found
              /\ insert_geocoded_report(Head(second_reports_to_process),
                                        location_data.lat, location_data.lon)
              /\ Called("tweet_geocoder_new", Head(second_reports_to_process),
                        "geocode", outcome)
    /\ second_reports_to_process' = Tail(second_reports_to_process)
    /\ second_geopc' = IF Tail(second_reports_to_process) = << >> THEN "done" ELSE "loop"
    /\ UNCHANGED <<incident_reports, final_report, geocoded_tweets_table, intakeVars,
                   classifierVars, extractorVars, workflowVars, marked_as, grouperVars,
                   dashboardVars, geopc, reports_to_process>>

\* Its loop body for a report the geocoder does not find.
SecondGeocoderSkip ==
    /\ second_geopc = "loop"
    /\ \E outcome \in GeocodeOutcomes :
          /\ ~get_coordinates(outcome).found /\ ~get_coordinates(outcome).raised
          /\ Called("tweet_geocoder_new", Head(second_reports_to_process), "geocode", outcome)
    /\ second_reports_to_process' = Tail(second_reports_to_process)
    /\ second_geopc' = IF Tail(second_reports_to_process) = << >> THEN "done" ELSE "loop"
    /\ UNCHANGED <<storeVars, intakeVars, classifierVars, extractorVars, workflowVars,
                   marked_as, grouperVars, dashboardVars, geopc, reports_to_process>>

\* Its loop body when get_coordinates raises: the run is over.
SecondGeocoderRaise ==
    /\ second_geopc = "loop"
    /\ \E outcome \in GeocodeOutcomes :
          /\ get_coordinates(outcome).raised
          /\ Called("tweet_geocoder_new", Head(second_reports_to_process), "geocode", outcome)
    /\ second_reports_to_process' = << >>
    /\ second_geopc' = "done"
    /\ UNCHANGED <<storeVars, intakeVars, classifierVars, extractorVars, workflowVars,
                   marked_as, grouperVars, dashboardVars, geopc, reports_to_process>>

\* The second process is terminated between two commits.
SecondGeocoderTerminate ==
    /\ second_geopc \in { "schema", "loop" }
    /\ second_geopc' = "terminated"
    /\ second_reports_to_process' = << >>
    /\ UNCHANGED <<storeVars, intakeVars, classifierVars, extractorVars, workflowVars,
                   callVars, grouperVars, dashboardVars, geopc, reports_to_process>>

SecondGeocoder ==
    \/ SecondGeocoderSetup /\ UNCHANGED <<rerunVars, smsVars, placeVars>>
    \/ SecondGeocoderFetch /\ UNCHANGED <<rerunVars, smsVars, placeVars>>
    \/ SecondGeocoderInsert /\ UNCHANGED <<rerunVars, smsVars, placeVars>>
    \/ SecondGeocoderSkip /\ UNCHANGED <<rerunVars, smsVars, placeVars>>
    \/ SecondGeocoderRaise /\ UNCHANGED <<rerunVars, smsVars, placeVars>>
    \/ SecondGeocoderTerminate /\ UNCHANGED <<rerunVars, smsVars, placeVars>>

Geocoder ==
    \/ GeocoderSetup /\ UNCHANGED <<rerunVars, smsVars, placeVars>>
    \/ GeocoderFetch /\ UNCHANGED <<rerunVars, smsVars, placeVars>>
    \/ GeocoderInsert /\ UNCHANGED <<rerunVars, smsVars, placeVars>>
    \/ GeocoderSkip /\ UNCHANGED <<rerunVars, smsVars, placeVars>>
    \/ GeocoderRaise /\ UNCHANGED <<rerunVars, smsVars, placeVars>>
    \/ GeocoderTerminate /\ UNCHANGED <<rerunVars, smsVars, placeVars>>

(***************************************************************************)
(* tweet_geocoder_1.py: the geocoding stage with another SELECT and a      *)
(* geocoded_tweets table without the status column. Its get_coordinates    *)
(* is that of tweet_geocoder_new.py.                                       *)
(***************************************************************************)
\* setup_database_schema of tweet_geocoder_1.py: CREATE TABLE IF NOT EXISTS
\* geocoded_tweets (...) without a status column, and its commit; a table
\* that exists is left as it is
first_setup_database_schema ==
    /\ geocoded_tweets_table' =
          IF geocoded_tweets_table = "absent" THEN "without_status"
          ELSE geocoded_tweets_table
    /\ UNCHANGED geocoded_tweets

\* fetch_unprocessed_reports of tweet_geocoder_1.py: ... WHERE gt.source_report_id
\* IS NULL AND fr.event_location IS NOT NULL AND fr.event_location != 'Not specified'
first_fetch_unprocessed_reports ==
    Ascending({ k \in 1..Len(final_report) :
                   /\ k \notin DOMAIN geocoded_tweets
                   /\ final_report[k].event_location # "NULL"
                   /\ final_report[k].event_location # "Not specified" })

\* insert_geocoded_report of tweet_geocoder_1.py: the same INSERT ... ON
\* CONFLICT (source_report_id) DO NOTHING; the row has a status, the default
\* of the column, only in a table that has the column
first_insert_geocoded_report(id, latitude, longitude) ==
    LET row == [latitude          |-> latitude,
                longitude         |-> longitude,
                event_summary     |-> final_report[id].event_summary,
                event_location    |-> final_report[id].event_location,
                number_of_reports |-> final_report[id].number_of_reports]
    IN  geocoded_tweets' =
            IF id \in DOMAIN geocoded_tweets THEN geocoded_tweets
            ELSE IF geocoded_tweets_table = "with_status"
                 THEN (id :> ([status |-> "reported"] @@ row)) @@ geocoded_tweets
                 ELSE (id :> row) @@ geocoded_tweets

\* A run starts: the connection, and setup_database_schema with its commit.
FirstGeocoderSetup ==
    /\ geopc \in NotRunning
    /\ first_setup_database_schema
    /\ geopc' = "first_schema"
    /\ UNCHANGED <<incident_reports, final_report, intakeVars, classifierVars, extractorVars,
                   workflowVars, callVars, grouperVars, dashboardVars,
                   reports_to_process, second_geopc, second_reports_to_process>>

\* The SELECT of fetch_unprocessed_reports, on the store as it is by then.
FirstGeocoderFetch ==
    /\ geopc = "first_schema"
    /\ reports_to_process' = first_fetch_unprocessed_reports
    /\ geopc' = IF first_fetch_unprocessed_reports = << >> THEN "done" ELSE "first_loop"
    /\ UNCHANGED <<storeVars, intakeVars, classifierVars, extractorVars,
                   workflowVars, callVars, grouperVars, dashboardVars,
                   second_geopc, second_reports_to_process>>

\* The loop body for a report the geocoder finds: the row is inserted.
FirstGeocoderInsert ==
    /\ geopc = "first_loop"
    /\ \E outcome \in GeocodeOutcomes :
          LET location_data == get_coordinates(outcome)
          IN  /\ location_data.found
              /\ first_insert_geocoded_report(Head(reports_to_process),
                                              location_data.lat, location_data.lon)
              /\ Called("tweet_geocoder_1", Head(reports_to_process), "geocode", outcome)
    /\ reports_to_process' = Tail(reports_to_process)
    /\ geopc' = IF Tail(reports_to_process) = << >> THEN "done" ELSE "first_loop"
    /\ UNCHANGED <<incident_reports, final_report, geocoded_tweets_table, intakeVars,
                   classifierVars, extractorVars, workflowVars, marked_as,
                   grouperVars, dashboardVars, second_geopc,
                   second_reports_to_process>>

\* The loop body for a report the geocoder does not find: nothing is written.
FirstGeocoderSkip ==
    /\ geopc = "first_loop"
    /\ \E outcome \in GeocodeOutcomes :
          /\ ~get_coordinates(outcome).found /\ ~get_coordinates(outcome).raised
          /\ Called("tweet_geocoder_1", Head(reports_to_process), "geocode", outcome)
    /\ reports_to_process' = Tail(reports_to_process)
    /\ geopc' = IF Tail(reports_to_process) = << >> THEN "done" ELSE "first_loop"
    /\ UNCHANGED <<storeVars, intakeVars, classifierVars, extractorVars, workflowVars,
                   marked_as, grouperVars, dashboardVars, second_geopc,
                   second_reports_to_process>>

\* The loop body when get_coordinates raises: the except clause of the main
\* block prints the error and the run is over, the rest of the batch left.
FirstGeocoderRaise ==
    /\ geopc = "first_loop"
    /\ \E outcome \in GeocodeOutcomes :
          /\ get_coordinates(outcome).raised
          /\ Called("tweet_geocoder_1", Head(reports_to_process), "geocode", outcome)
    /\ reports_to_process' = << >>
    /\ geopc' = "done"
    /\ UNCHANGED <<storeVars, intakeVars, classifierVars, extractorVars, workflowVars,
                   marked_as, grouperVars, dashboardVars, second_geopc,
                   second_reports_to_process>>

\* The process is terminated between two commits.
FirstGeocoderTerminate ==
    /\ geopc \in { "first_schema", "first_loop" }
    /\ geopc' = "terminated"
    /\ reports_to_process' = << >>
    /\ UNCHANGED <<storeVars, intakeVars, classifierVars, extractorVars, workflowVars,
                   callVars, grouperVars, dashboardVars, second_geopc,
                   second_reports_to_process>>

FirstGeocoder ==
    \/ FirstGeocoderSetup /\ UNCHANGED <<rerunVars, smsVars, placeVars>>
    \/ FirstGeocoderFetch /\ UNCHANGED <<rerunVars, smsVars, placeVars>>
    \/ FirstGeocoderInsert /\ UNCHANGED <<rerunVars, smsVars, placeVars>>
    \/ FirstGeocoderSkip /\ UNCHANGED <<rerunVars, smsVars, placeVars>>
    \/ FirstGeocoderRaise /\ UNCHANGED <<rerunVars, smsVars, placeVars>>
    \/ FirstGeocoderTerminate /\ UNCHANGED <<rerunVars, smsVars, placeVars>>

(***************************************************************************)
(* tweets_geocoder.py: the geocoder of the incident reports. Its            *)
(* get_coordinates is that of tweet_geocoder_new.py.                       *)
(***************************************************************************)
\* SELECT DISTINCT extracted_location FROM incident_reports WHERE latitude IS NULL
\* AND extracted_location IS NOT NULL AND extracted_location != 'Not specified'
fetch_unprocessed_locations ==
    { incident_reports[i].extracted_location :
          i \in { k \in DOMAIN incident_reports :
                     /\ k \notin DOMAIN incident_coordinates
                     /\ incident_reports[k].extracted_location # "NULL"
                     /\ incident_reports[k].extracted_location # "Not specified" } }

\* UPDATE incident_reports SET latitude = %s, longitude = %s
\* WHERE extracted_location = %s, and its commit. incident_coordinates holds
\* the rows whose latitude is not NULL: an update that writes NULL takes the
\* rows of the place out of it.
update_location_with_coords(location_name, lat, lon) ==
    LET matching == { i \in DOMAIN incident_reports :
                         incident_reports[i].extracted_location = location_name }
    IN  incident_coordinates' =
            IF lat = "NULL"
            THEN [i \in DOMAIN incident_coordinates \ matching |-> incident_coordinates[i]]
            ELSE [i \in DOMAIN incident_coordinates \cup matching |->
                     IF i \in matching THEN [latitude |-> lat, longitude |-> lon]
                     ELSE incident_coordinates[i]]

\* The script starts: the locations to geocode, in the order the SELECT gives.
PlacesFetch ==
    /\ plpc \in NotRunning
    /\ \E rows \in Orderings(fetch_unprocessed_locations) :
          /\ places_to_find' = rows
          /\ plpc' = IF rows = << >> THEN "done" ELSE "loop"
    /\ UNCHANGED <<incident_coordinates, storeVars, intakeVars, classifierVars, extractorVars,
                   workflowVars, callVars, grouperVars, geocoderVars, dashboardVars>>

\* The loop body for a place the geocoder finds: every report of the place
\* gets the coordinates.
PlacesUpdate ==
    /\ plpc = "loop"
    /\ \E outcome \in GeocodeOutcomes :
          LET location_data == get_coordinates(outcome)
          IN  /\ location_data.found
              /\ update_location_with_coords(Head(places_to_find),
                                             location_data.lat, location_data.lon)
    /\ places_to_find' = Tail(places_to_find)
    /\ plpc' = IF Tail(places_to_find) = << >> THEN "done" ELSE "loop"
    /\ UNCHANGED <<storeVars, intakeVars, classifierVars, extractorVars,
                   workflowVars, callVars, grouperVars, geocoderVars, dashboardVars>>

\* The loop body for a place the geocoder does not find: nothing is written.
PlacesSkip ==
    /\ plpc = "loop"
    /\ \E outcome \in GeocodeOutcomes :
          ~get_coordinates(outcome).found /\ ~get_coordinates(outcome).raised
    /\ places_to_find' = Tail(places_to_find)
    /\ plpc' = IF Tail(places_to_find) = << >> THEN "done" ELSE "loop"
    /\ UNCHANGED <<incident_coordinates, storeVars, intakeVars, classifierVars, extractorVars,
                   workflowVars, callVars, grouperVars, geocoderVars, dashboardVars>>

\* The loop body when get_coordinates raises, or the process is terminated
\* between two commits: the run is over, the rest of the places left.
PlacesEnd ==
    /\ plpc = "loop"
    /\ places_to_find' = << >>
    /\ plpc' = "terminated"
    /\ UNCHANGED <<incident_coordinates, storeVars, intakeVars, classifierVars, extractorVars,
                   workflowVars, callVars, grouperVars, geocoderVars, dashboardVars>>

PlaceGeocoder ==
    \/ PlacesFetch /\ UNCHANGED <<rerunVars, smsVars>>
    \/ PlacesUpdate /\ UNCHANGED <<rerunVars, smsVars>>
    \/ PlacesSkip /\ UNCHANGED <<rerunVars, smsVars>>
    \/ PlacesEnd /\ UNCHANGED <<rerunVars, smsVars>>

(***************************************************************************)
(* api_server_new.py                                                       *)
(***************************************************************************)
\* the status column of the row with source_report_id = id, "absent" without
\* a row or without the column
StatusOf(id) ==
    IF geocoded_tweets_table = "with_status" /\ id \in DOMAIN geocoded_tweets
    THEN geocoded_tweets[id].status ELSE "absent"

\* the same in the store a request leaves: no request changes the columns of
\* the table
StatusAfter(id) ==
    IF geocoded_tweets_table = "with_status" /\ id \in DOMAIN geocoded_tweets'
    THEN geocoded_tweets'[id].status ELSE "absent"

\* a dispatch_incident that sets 'dispatched' whatever the status was
NewStatusAlwaysDispatched(current) == "dispatched"

\* a toggle that takes a dispatch back with a status of its own
NewStatusRecalled(current) == IF current = "dispatched" THEN "recalled" ELSE "dispatched"

\* new_status = 'reported' if current_status == 'dispatched' else 'dispatched'
NewStatus(current) == IF current = "dispatched" THEN "reported" ELSE "dispatched"

\* an UPDATE that leaves a row with status 'reported' alone
update_status_unless_reported(id, status) ==
    geocoded_tweets' =
        IF id \in DOMAIN geocoded_tweets /\ geocoded_tweets[id].status # "reported"
        THEN [geocoded_tweets EXCEPT ![id].status = status]
        ELSE geocoded_tweets

\* an UPDATE without its WHERE clause
update_status_of_every_row(id, status) ==
    geocoded_tweets' = [k \in DOMAIN geocoded_tweets |->
                           [geocoded_tweets[k] EXCEPT !.status = status]]

\* UPDATE geocoded_tweets SET status = %s WHERE source_report_id = %s
update_status(id, status) ==
    geocoded_tweets' =
        IF id \in DOMAIN geocoded_tweets
        THEN [geocoded_tweets EXCEPT ![id].status = status]
        ELSE geocoded_tweets

\* jsonify({'success': True, 'new_status': new_status})
DispatchOk(new_status) ==
    [http |-> 200, json |-> TRUE, success |-> TRUE, new_status |-> new_status,
     error |-> "none"]

\* jsonify({'success': True})
CompleteOk ==
    [http |-> 200, json |-> TRUE, success |-> TRUE, new_status |-> "none",
     error |-> "none"]

\* cur.fetchone()[0] with no row: TypeError, which Flask answers with its
\* 500 page, not with a JSON object
UnhandledTypeError ==
    [http |-> 500, json |-> FALSE, success |-> FALSE, new_status |-> "none",
     error |-> "TypeError"]

\* a statement that names geocoded_tweets, or its status column, in a store
\* that has none: psycopg2 raises ProgrammingError, the handler has no except
\* clause, and Flask answers with its 500 page
UnhandledProgrammingError ==
    [http |-> 500, json |-> FALSE, success |-> FALSE, new_status |-> "none",
     error |-> "ProgrammingError"]

\* report ids a request may carry: with or without a geocoded_tweets row
RequestIds == 1..NEvents

Served(op, id, read, before, after, response) ==
    http_log' = Append(http_log, [op |-> op, id |-> id, read |-> read,
                                  before |-> before, after |-> after,
                                  response |-> response])

InProgress == { c \in Clients : dpc[c] # "idle" }

MayBegin(c) ==
    /\ dpc[c] = "idle"
    /\ Len(http_log) + Cardinality(InProgress) < MaxRequests

\* dispatch_incident up to the SELECT, which finds the row
DispatchSelect(c, id) ==
    /\ MayBegin(c)
    /\ geocoded_tweets_table = "with_status"
    /\ id \in DOMAIN geocoded_tweets
    /\ dpc' = [dpc EXCEPT ![c] = "selected"]
    /\ report_id' = [report_id EXCEPT ![c] = id]
    /\ current_status' = [current_status EXCEPT ![c] = geocoded_tweets[id].status]
    /\ UNCHANGED <<storeVars, intakeVars, classifierVars, extractorVars, workflowVars, callVars,
                   grouperVars, geocoderVars, http_log, rerunVars, smsVars, placeVars>>

\* dispatch_incident when the SELECT finds no row, fetchone() is None, or
\* raises, the table or its status column missing
DispatchNoRow(c, id) ==
    /\ MayBegin(c)
    /\ geocoded_tweets_table # "with_status" \/ id \notin DOMAIN geocoded_tweets
    /\ Served("dispatch", id, "absent", "absent", "absent",
              IF geocoded_tweets_table = "with_status"
              THEN UnhandledTypeError ELSE UnhandledProgrammingError)
    /\ UNCHANGED <<storeVars, intakeVars, classifierVars, extractorVars, workflowVars, callVars,
                   grouperVars, geocoderVars,
                   dpc, report_id, current_status, rerunVars, smsVars, placeVars>>

\* dispatch_incident from the UPDATE to the response
DispatchUpdate(c) ==
    /\ dpc[c] = "selected"
    /\ LET new_status == NewStatus(current_status[c])
       IN  /\ update_status(report_id[c], new_status)
           /\ Served("dispatch", report_id[c], current_status[c],
                     StatusOf(report_id[c]), StatusAfter(report_id[c]),
                     DispatchOk(new_status))
    /\ dpc' = [dpc EXCEPT ![c] = "idle"]
    /\ report_id' = [report_id EXCEPT ![c] = 0]
    /\ current_status' = [current_status EXCEPT ![c] = "none"]
    /\ UNCHANGED <<incident_reports, final_report, geocoded_tweets_table, intakeVars, classifierVars, extractorVars, workflowVars, callVars,
                   grouperVars, geocoderVars, rerunVars, smsVars, placeVars>>

\* complete_incident: one UPDATE and its commit; the UPDATE raises when the
\* table or its status column is missing
Complete(c, id) ==
    /\ MayBegin(c)
    /\ IF geocoded_tweets_table = "with_status"
       THEN /\ update_status(id, "completed")
            /\ Served("complete", id, "none", StatusOf(id), StatusAfter(id), CompleteOk)
       ELSE /\ UNCHANGED geocoded_tweets
            /\ Served("complete", id, "none", "absent", "absent", UnhandledProgrammingError)
    /\ UNCHANGED <<incident_reports, final_report, geocoded_tweets_table, intakeVars, classifierVars, extractorVars, workflowVars, callVars,
                   grouperVars, geocoderVars,
                   dpc, report_id, current_status, rerunVars, smsVars, placeVars>>

Dashboard(c) ==
    \/ \E id \in RequestIds : DispatchSelect(c, id)
    \/ \E id \in RequestIds : DispatchNoRow(c, id)
    \/ DispatchUpdate(c)
    \/ \E id \in RequestIds : Complete(c, id)

\* latitude IS NOT NULL AND longitude IS NOT NULL
HasCoordinates(row) == row.latitude # "NULL" /\ row.longitude # "NULL"

\* dict(zip(colnames, row)) for the row with source_report_id = id
Incident(id) ==
    [source_report_id |-> id,
     latitude         |-> geocoded_tweets[id].latitude,
     longitude        |-> geocoded_tweets[id].longitude,
     event_summary    |-> geocoded_tweets[id].event_summary,
     event_location   |-> geocoded_tweets[id].event_location,
     status           |-> geocoded_tweets[id].status]

\* api_server_new.py: SELECT ... FROM geocoded_tweets WHERE latitude IS NOT NULL
\*   AND longitude IS NOT NULL AND status != 'completed'
\* The rows come in no stated order: the array is modelled by its set.
get_incidents ==
    { Incident(id) : id \in { i \in DOMAIN geocoded_tweets :
                                 /\ HasCoordinates(geocoded_tweets[i])
                                 /\ geocoded_tweets[i].status # "completed" } }

\* api_server.py: SELECT source_report_id, latitude, longitude, event_summary,
\*   event_location FROM geocoded_tweets WHERE latitude IS NOT NULL AND
\*   longitude IS NOT NULL
api_server_get_incidents ==
    { [source_report_id |-> id,
       latitude         |-> geocoded_tweets[id].latitude,
       longitude        |-> geocoded_tweets[id].longitude,
       event_summary    |-> geocoded_tweets[id].event_summary,
       event_location   |-> geocoded_tweets[id].event_location] :
      id \in { i \in DOMAIN geocoded_tweets : HasCoordinates(geocoded_tweets[i]) } }

\* jsonify(incidents)
IncidentsOk(rows) == [http |-> 200, json |-> TRUE, body |-> rows]

\* a handler that answers a failed connection as it answers a served request
ConnectionIgnored ==
    [http |-> 200, json |-> TRUE, success |-> TRUE, new_status |-> "none",
     error |-> "none"]

\* jsonify({'success': False, 'error': 'Database connection failed'}), 500
ConnectionFailed ==
    [http |-> 500, json |-> TRUE, success |-> FALSE, new_status |-> "none",
     error |-> "Database connection failed"]

\* a GET /api/incidents served by the named server; read tells whether the
\* store was reached, table is geocoded_tweets as the request found it
ServedIncidents(server, read, response) ==
    http_log' = Append(http_log, [op |-> "incidents", server |-> server, id |-> 0,
                                  read |-> read, before |-> "none", after |-> "none",
                                  response |-> response, table |-> geocoded_tweets])

\* get_incidents of api_server_new.py with a connection; the SELECT raises
\* when the table or its status column is missing
GetIncidents(c) ==
    /\ MayBegin(c)
    /\ IF geocoded_tweets_table = "with_status"
       THEN ServedIncidents("api_server_new", "rows", IncidentsOk(get_incidents))
       ELSE ServedIncidents("api_server_new", "rows", UnhandledProgrammingError)
    /\ UNCHANGED <<storeVars, intakeVars, classifierVars, extractorVars, workflowVars, callVars,
                   grouperVars, geocoderVars,
                   dpc, report_id, current_status, rerunVars, smsVars, placeVars>>

\* get_incidents of api_server.py with a connection; without the table the
\* SELECT raises, and the except clause leaves incidents the empty list
ApiServerGetIncidents(c) ==
    /\ MayBegin(c)
    /\ IF geocoded_tweets_table = "absent"
       THEN ServedIncidents("api_server", "rows", IncidentsOk({}))
       ELSE ServedIncidents("api_server", "rows", IncidentsOk(api_server_get_incidents))
    /\ UNCHANGED <<storeVars, intakeVars, classifierVars, extractorVars, workflowVars, callVars,
                   grouperVars, geocoderVars,
                   dpc, report_id, current_status, rerunVars, smsVars, placeVars>>

\* get_incidents of either server when get_db_connection returned None:
\* incidents is still the empty list
GetIncidentsNoConnection(c) ==
    /\ MayBegin(c)
    /\ \E server \in { "api_server_new", "api_server" } :
          ServedIncidents(server, "unreachable", IncidentsOk({}))
    /\ UNCHANGED <<storeVars, intakeVars, classifierVars, extractorVars, workflowVars, callVars,
                   grouperVars, geocoderVars,
                   dpc, report_id, current_status, rerunVars, smsVars, placeVars>>

\* dispatch_incident when get_db_connection returned None
DispatchNoConnection(c, id) ==
    /\ MayBegin(c)
    /\ UNCHANGED <<storeVars, intakeVars, classifierVars, extractorVars, workflowVars, callVars,
                   grouperVars, geocoderVars,
                   dpc, report_id, current_status, rerunVars, smsVars, placeVars>>
    /\ Served("dispatch", id, "unreachable", StatusOf(id), StatusAfter(id), ConnectionFailed)

\* complete_incident when get_db_connection returned None
CompleteNoConnection(c, id) ==
    /\ MayBegin(c)
    /\ UNCHANGED <<storeVars, intakeVars, classifierVars, extractorVars, workflowVars, callVars,
                   grouperVars, geocoderVars,
                   dpc, report_id, current_status, rerunVars, smsVars, placeVars>>
    /\ Served("complete", id, "unreachable", StatusOf(id), StatusAfter(id), ConnectionFailed)

(***************************************************************************)
(* The geocoding stage and the dashboard on a store that holds NEvents     *)
(* Events, each of two grouped reports, as clustering runs left them. The  *)
(* dashboard serves one request at a time.                                 *)
(***************************************************************************)
DashboardStore ==
    /\ tweets = [t \in 1..(2 * NEvents) |-> Tweet(t, "classified")]
    /\ actionable_tweets = [t \in 1..(2 * NEvents) |-> ActionableTweet(t)]
    /\ incident_reports =
           [i \in 1..(2 * NEvents) |-> IncidentReport(i, "flooding", "grouped")]
    /\ \E outcome \in [1..NEvents -> SummarizeOutcomes] :
          final_report =
              [k \in 1..NEvents |->
                  [event_summary       |-> summarize_cluster(outcome[k]).summary,
                   event_location      |-> summarize_cluster(outcome[k]).location,
                   source_incident_ids |-> <<2 * k - 1, 2 * k>>,
                   number_of_reports   |-> 2]]
    /\ geocoded_tweets = << >>
    /\ geocoded_tweets_table = "absent"

DashboardInit == DashboardStore /\ NothingRunning /\ NoRerun

DashboardNext == Geocoder \/ Dashboard(1)

DashboardSpec == DashboardInit /\ [][DashboardNext]_vars

(***************************************************************************)
(* The same with two invocations of the geocoding script alive at once.    *)
(***************************************************************************)
GeocodeDispatchNext == Geocoder \/ SecondGeocoder \/ Dashboard(1)

GeocodeDispatchSpec == DashboardInit /\ [][GeocodeDispatchNext]_vars

(***************************************************************************)
(* The same with NClients requests in progress at once.                    *)
(***************************************************************************)
ConcurrentDashboardNext == Geocoder \/ \E c \in Clients : Dashboard(c)

ConcurrentDashboardSpec == DashboardInit /\ [][ConcurrentDashboardNext]_vars

(***************************************************************************)
(* The dashboard with its read endpoint, served by api_server_new.py or by *)
(* api_server.py, and with a store that may be unreachable for a request.  *)
(* The store is one a geocoding run left: some Events have their           *)
(* geocoded_tweets row, with the status the insert gives it.               *)
(***************************************************************************)
ApiStore ==
    /\ tweets = [t \in 1..(2 * NEvents) |-> Tweet(t, "classified")]
    /\ actionable_tweets = [t \in 1..(2 * NEvents) |-> ActionableTweet(t)]
    /\ incident_reports =
           [i \in 1..(2 * NEvents) |-> IncidentReport(i, "flooding", "grouped")]
    /\ \E outcome \in [1..NEvents -> SummarizeOutcomes] :
          final_report =
              [k \in 1..NEvents |->
                  [event_summary       |-> summarize_cluster(outcome[k]).summary,
                   event_location      |-> summarize_cluster(outcome[k]).location,
                   source_incident_ids |-> <<2 * k - 1, 2 * k>>,
                   number_of_reports   |-> 2]]
    /\ \E geocoded \in SUBSET (1..NEvents) :
       \E outcome \in [geocoded -> { "found", "null_geometry" }] :
          geocoded_tweets =
              [k \in geocoded |->
                  [latitude          |-> get_coordinates(outcome[k]).lat,
                   longitude         |-> get_coordinates(outcome[k]).lon,
                   event_summary     |-> final_report[k].event_summary,
                   event_location    |-> final_report[k].event_location,
                   number_of_reports |-> final_report[k].number_of_reports,
                   status            |-> "reported"]]
    /\ geocoded_tweets_table = "with_status"

ApiInit == ApiStore /\ NothingRunning /\ NoRerun

\* a request may begin while fewer than MaxCalls have
CallsLeft == Len(http_log) + Cardinality(InProgress) < MaxCalls

ApiNext ==
    \/ CallsLeft /\ GetIncidents(1)
    \/ CallsLeft /\ ApiServerGetIncidents(1)
    \/ CallsLeft /\ GetIncidentsNoConnection(1)
    \/ CallsLeft /\ \E id \in RequestIds : DispatchSelect(1, id)
    \/ CallsLeft /\ \E id \in RequestIds : DispatchNoRow(1, id)
    \/ CallsLeft /\ \E id \in RequestIds : DispatchNoConnection(1, id)
    \/ DispatchUpdate(1)
    \/ CallsLeft /\ \E id \in RequestIds : Complete(1, id)
    \/ CallsLeft /\ \E id \in RequestIds : CompleteNoConnection(1, id)

ApiSpec == ApiInit /\ [][ApiNext]_vars

(***************************************************************************)
(* One stage run to its end twice in a row, nothing else touching the      *)
(* store: the store the stage starts on is the one the stage before it     *)
(* left. No run is terminated.                                             *)
(***************************************************************************)
RerunStages == { "classification", "extraction", "clustering", "geocoding" }

\* all tables with their status values
AllTables == <<tweets, actionable_tweets, incident_reports, final_report, geocoded_tweets>>

\* the same in the store the step leaves
AllTablesAfter ==
    <<tweets', actionable_tweets', incident_reports', final_report', geocoded_tweets'>>

ClassificationStore ==
    /\ tweets = [t \in TweetIds |-> Tweet(t, "unclassified")]
    /\ actionable_tweets = << >>
    /\ incident_reports = << >>
    /\ final_report = << >>
    /\ geocoded_tweets = << >>
    /\ geocoded_tweets_table = "absent"

ExtractionStore ==
    /\ tweets = [t \in TweetIds |-> Tweet(t, "classified")]
    /\ \E actionable \in SUBSET TweetIds :
          actionable_tweets = [k \in 1..Cardinality(actionable) |->
                                  ActionableTweet(Ascending(actionable)[k])]
    /\ incident_reports = << >>
    /\ final_report = << >>
    /\ geocoded_tweets = << >>
    /\ geocoded_tweets_table = "absent"

RerunInit ==
    /\ rerun_stage \in RerunStages
    /\ runs_completed = 0
    /\ retry_left = FALSE
    /\ snapshot = << >>
    /\ CASE rerun_stage = "classification" -> ClassificationStore
         [] rerun_stage = "extraction" -> ExtractionStore
         [] rerun_stage = "clustering" -> ClusteringStore
         [] OTHER -> DashboardStore
    /\ NothingRunning

\* A step of a run of the stage: skipped tells that it left its item without
\* a derived row, ended that the run is over with it. The snapshot is taken
\* when the first run is over.
RunStep(stage, skipped, ended) ==
    /\ rerun_stage = stage
    /\ runs_completed < 2
    /\ rerun_stage' = rerun_stage
    /\ retry_left' = (retry_left \/ (skipped /\ runs_completed = 0))
    /\ runs_completed' = IF ended THEN runs_completed + 1 ELSE runs_completed
    /\ snapshot' = IF ended /\ runs_completed = 0 THEN AllTablesAfter ELSE snapshot
    /\ UNCHANGED <<smsVars, placeVars>>

RerunNext ==
    \/ ClassifierFetch /\ RunStep("classification", FALSE, cpc' = "done")
    \/ ClassifierInsert /\ RunStep("classification", FALSE, cpc' = "done")
    \/ ClassifierNotActionable /\ RunStep("classification", FALSE, cpc' = "done")
    \/ ClassifierMark /\ RunStep("classification", FALSE, cpc' = "done")
    \/ ExtractorFetch /\ RunStep("extraction", FALSE, epc' = "done")
    \/ ExtractorInsert /\ RunStep("extraction", FALSE, epc' = "done")
    \/ ExtractorSkip /\ RunStep("extraction", TRUE, epc' = "done")
    \/ GrouperFetch(1) /\ RunStep("clustering", FALSE, gpc'[1] = "done")
    \/ GrouperCluster(1) /\ RunStep("clustering", FALSE, gpc'[1] = "done")
    \/ GrouperEmbedFailed(1) /\ RunStep("clustering", TRUE, gpc'[1] = "done")
    \/ GrouperInsert(1) /\ RunStep("clustering", FALSE, gpc'[1] = "done")
    \/ GrouperUpdate(1) /\ RunStep("clustering", FALSE, gpc'[1] = "done")
    \/ GeocoderSetup /\ RunStep("geocoding", FALSE, geopc' = "done")
    \/ GeocoderFetch /\ RunStep("geocoding", FALSE, geopc' = "done")
    \/ GeocoderInsert /\ RunStep("geocoding", FALSE, geopc' = "done")
    \/ GeocoderSkip /\ RunStep("geocoding", TRUE, geopc' = "done")
    \/ GeocoderRaise /\ RunStep("geocoding", TRUE, geopc' = "done")

RerunSpec == RerunInit /\ [][RerunNext]_vars

(***************************************************************************)
(* The classification of the messages: tweet_classify.py and               *)
(* tweet_classify_processer.py run against one store, their steps          *)
(* interleaved in any order, each of them terminated and run again any     *)
(* number of times. The store holds NTweets tweets, none classified.       *)
(***************************************************************************)
IntakeInit == ClassificationStore /\ NothingRunning /\ NoRerun

ClassifyNext == Classifier \/ Workflow

ClassifySpec == IntakeInit /\ [][ClassifyNext]_vars

(***************************************************************************)
(* tweet_classify.py and tweet_classify_processer.py alive at once, their  *)
(* committed statements interleaved in any order, every run run to its end *)
(* (no process is terminated, no exception ends one).                      *)
(***************************************************************************)
CompleteRunsNext ==
    \/ ClassifierFetch /\ UNCHANGED <<rerunVars, smsVars, placeVars>>
    \/ ClassifierInsert /\ UNCHANGED <<rerunVars, smsVars, placeVars>>
    \/ ClassifierNotActionable /\ UNCHANGED <<rerunVars, smsVars, placeVars>>
    \/ ClassifierMark /\ UNCHANGED <<rerunVars, smsVars, placeVars>>
    \/ WorkflowFetch /\ UNCHANGED <<rerunVars, smsVars, placeVars>>
    \/ WorkflowExtractInsert /\ UNCHANGED <<rerunVars, smsVars, placeVars>>
    \/ WorkflowExtractFailed /\ UNCHANGED <<rerunVars, smsVars, placeVars>>
    \/ WorkflowClassifyInsert /\ UNCHANGED <<rerunVars, smsVars, placeVars>>
    \/ WorkflowNotActionable /\ UNCHANGED <<rerunVars, smsVars, placeVars>>
    \/ WorkflowMark /\ UNCHANGED <<rerunVars, smsVars, placeVars>>

CompleteRunsSpec == IntakeInit /\ [][CompleteRunsNext]_vars

(***************************************************************************)
(* The extraction of the reports: tweet_processer_1.py and                 *)
(* tweet_classify_processer.py in the same way.                            *)
(***************************************************************************)
ExtractNext == Extractor \/ Workflow

ExtractSpec == IntakeInit /\ [][ExtractNext]_vars

(***************************************************************************)
(* The four scripts that write the tweets and the reports                  *)
(* (tweet_classify.py, tweet_classify_processer.py, tweet_processer_1.py,  *)
(* tweet_grouper.py)                                                       *)
(* alive at once, their committed statements interleaved in any order,     *)
(* every answer of every collaborator, each run terminated at any commit   *)
(* or run to its end and started again. The store is one the pipeline      *)
(* leaves with one item of work: one unclassified tweet alone; a processed *)
(* tweet with its report and a classified tweet without a report; or a     *)
(* processed tweet and an unclassified tweet whose reports are grouped in   *)
(* an Event.                                                               *)
(***************************************************************************)
OneTweetStore ==
    /\ tweets = [t \in 1..1 |-> Tweet(t, "unclassified")]
    /\ actionable_tweets = << >>
    /\ incident_reports = << >>
    /\ final_report = << >>
    /\ geocoded_tweets = << >>
    /\ geocoded_tweets_table = "absent"

OneReportStore ==
    /\ tweets = [t \in 1..2 |-> Tweet(t, IF t = 1 THEN "processed" ELSE "classified")]
    /\ actionable_tweets = << >>
    /\ \E outcome \in ReportedIncidents :
          incident_reports = <<IncidentReport(1, outcome, "unprocessed")>>
    /\ final_report = << >>
    /\ geocoded_tweets = << >>
    /\ geocoded_tweets_table = "absent"

GroupedStore ==
    /\ tweets = [t \in 1..2 |-> Tweet(t, IF t = 1 THEN "processed" ELSE "unclassified")]
    /\ actionable_tweets = << >>
    /\ incident_reports = [i \in 1..2 |-> IncidentReport(i, "flooding", "grouped")]
    /\ \E outcome \in SummarizeOutcomes :
          final_report = <<[event_summary       |-> summarize_cluster(outcome).summary,
                            event_location      |-> summarize_cluster(outcome).location,
                            source_incident_ids |-> <<1, 2>>,
                            number_of_reports   |-> 2]>>
    /\ geocoded_tweets = << >>
    /\ geocoded_tweets_table = "absent"

StatusInit ==
    /\ OneTweetStore \/ OneReportStore \/ GroupedStore
    /\ NothingRunning
    /\ NoRerun

StatusNext == Classifier \/ Workflow \/ Extractor \/ Grouper(1)

StatusSpec == StatusInit /\ [][StatusNext]_vars

(***************************************************************************)
(* The stages whose loop handles one item per collaborator call, on a      *)
(* store with a batch of NTweets items for each: tweets without a report,  *)
(* and events, of two grouped reports each, without a geocoded row.        *)
(***************************************************************************)
BatchStore ==
    /\ tweets = [t \in 1..(3 * NTweets) |-> Tweet(t, "classified")]
    /\ actionable_tweets = [t \in 1..(3 * NTweets) |-> ActionableTweet(t)]
    /\ incident_reports =
           [i \in 1..(2 * NTweets) |-> IncidentReport(i, "flooding", "grouped")]
    /\ final_report =
           [k \in 1..NTweets |->
               [event_summary       |-> summarize_cluster("ok").summary,
                event_location      |-> summarize_cluster("ok").location,
                source_incident_ids |-> <<2 * k - 1, 2 * k>>,
                number_of_reports   |-> 2]]
    /\ geocoded_tweets = << >>
    /\ geocoded_tweets_table = "absent"

BatchInit == BatchStore /\ NothingRunning /\ NoRerun

BatchNext == Extractor \/ Geocoder

BatchSpec == BatchInit /\ [][BatchNext]_vars

(***************************************************************************)
(* The geocoding stage and the dashboard, one request at a time, on the    *)
(* store of NTweets Events of BatchStore: the requests name any of them.   *)
(***************************************************************************)
EventsDashboardNext ==
    \/ Geocoder
    \/ \E id \in DOMAIN final_report : DispatchSelect(1, id)
    \/ \E id \in DOMAIN final_report : DispatchNoRow(1, id)
    \/ DispatchUpdate(1)
    \/ \E id \in DOMAIN final_report : Complete(1, id)

EventsDashboardSpec == BatchInit /\ [][EventsDashboardNext]_vars

(***************************************************************************)
(* tweet_geocoder_1.py run any number of times on the NTweets Events of    *)
(* BatchStore, each with the summary and the location summarize_cluster    *)
(* gives on one of its answers: those of a complete object, those of a     *)
(* failed call, 'Not specified' of an answer without the key "location",   *)
(* the NULL of a null "location".                                          *)
(* No script has made geocoded_tweets, or tweet_geocoder_new.py has.       *)
(***************************************************************************)
LocationsStore ==
    /\ tweets = [t \in 1..(3 * NTweets) |-> Tweet(t, "classified")]
    /\ actionable_tweets = [t \in 1..(3 * NTweets) |-> ActionableTweet(t)]
    /\ incident_reports =
           [i \in 1..(2 * NTweets) |-> IncidentReport(i, "flooding", "grouped")]
    /\ \E outcome \in [1..NTweets -> SummarizeOutcomes] :
          final_report =
              [k \in 1..NTweets |->
                  [event_summary       |-> summarize_cluster(outcome[k]).summary,
                   event_location      |-> summarize_cluster(outcome[k]).location,
                   source_incident_ids |-> <<2 * k - 1, 2 * k>>,
                   number_of_reports   |-> 2]]
    /\ geocoded_tweets = << >>
    /\ geocoded_tweets_table \in { "absent", "with_status" }

LocationsInit == LocationsStore /\ NothingRunning /\ NoRerun

FirstGeocoderSpec == LocationsInit /\ [][FirstGeocoder]_vars

(***************************************************************************)
(* The two scripts of the geocoding stage on the same store, one run at a  *)
(* time, of either script.                                                 *)
(***************************************************************************)
GeocodersNext == Geocoder \/ FirstGeocoder

GeocodersSpec == LocationsInit /\ [][GeocodersNext]_vars

(***************************************************************************)
(* The same on a store of six reports: two of Gandhi Nagar that are        *)
(* farther apart than eps, a third that is within eps of both or is of     *)
(* Katpadi Road, two of Katpadi Road, and one of no place.                 *)
(***************************************************************************)
ChainStore ==
    /\ tweets = [t \in 1..6 |-> Tweet(t, "classified")]
    /\ actionable_tweets = [t \in 1..6 |-> ActionableTweet(t)]
    /\ \E third \in {"water_rising", "tree_fallen"} :
          incident_reports =
              [i \in 1..6 |->
                  IncidentReport(i, <<"flooding", "street_underwater", third,
                                      "tree_fallen", "tree_fallen", "no_location">>[i],
                                 "unprocessed")]
    /\ final_report = << >>
    /\ geocoded_tweets = << >>
    /\ geocoded_tweets_table = "absent"

ChainInit == ChainStore /\ NothingRunning /\ NoRerun

ChainSpec == ChainInit /\ [][OrderNext]_vars

(***************************************************************************)
(* The stages that write incident_reports after the extraction: the        *)
(* clustering stage, one runner, and tweets_geocoder.py, on the store of   *)
(* reports of NTweets tweets, a report's location being a place, NULL or   *)
(* 'Not specified'.                                                        *)
(***************************************************************************)
ExtractedIncidents == ReportedIncidents \cup { "null_location", "no_location" }

ExtractedStore ==
    /\ tweets = [t \in 1..NTweets |-> Tweet(t, "classified")]
    /\ actionable_tweets = [t \in 1..NTweets |-> ActionableTweet(t)]
    /\ \E outcome \in [1..NTweets -> ExtractedIncidents] :
          incident_reports = [i \in 1..NTweets |-> IncidentReport(i, outcome[i], "unprocessed")]
    /\ final_report = << >>
    /\ geocoded_tweets = << >>
    /\ geocoded_tweets_table = "absent"

ReportStagesInit == ExtractedStore /\ NothingRunning /\ NoRerun

ReportStagesNext ==
    \/ Grouper(1)
    \/ PlaceGeocoder

ReportStagesSpec == ReportStagesInit /\ [][ReportStagesNext]_vars

(***************************************************************************)
(* One script, started any number of times with the store reachable or     *)
(* not, a run terminated at any commit or run to its end, every answer of  *)
(* its collaborators. rerun_stage names the script; the store holds the    *)
(* work of its stage: unclassified tweets, classified tweets without       *)
(* reports, extracted reports, or Events without geocoded rows.            *)
(***************************************************************************)
StartupInit ==
    /\ rerun_stage \in { "tweet_classify", "tweet_classify_processer", "tweet_processer_1",
                          "tweet_grouper", "tweet_geocoder_new", "tweet_geocoder_1",
                          "tweets_geocoder" }
    /\ runs_completed = 0
    /\ retry_left = FALSE
    /\ snapshot = << >>
    /\ CASE rerun_stage \in { "tweet_classify", "tweet_classify_processer" } ->
                ClassificationStore
         [] rerun_stage = "tweet_processer_1" -> ExtractionStore
         [] rerun_stage = "tweet_grouper" -> ClusteringStore
         [] rerun_stage = "tweets_geocoder" -> ExtractedStore
         [] OTHER -> LocationsStore
    /\ NothingRunning

StartupNext ==
    \/ rerun_stage = "tweet_classify" /\ Classifier
    \/ rerun_stage = "tweet_classify" /\ ClassifierNoConnection
                                      /\ UNCHANGED <<rerunVars, smsVars, placeVars>>
    \/ rerun_stage = "tweet_classify_processer" /\ Workflow
    \/ rerun_stage = "tweet_classify_processer" /\ WorkflowNoConnection
                                                /\ UNCHANGED <<rerunVars, smsVars, placeVars>>
    \/ rerun_stage = "tweet_processer_1" /\ Extractor
    \/ rerun_stage = "tweet_processer_1" /\ ExtractorNoConnection
                                         /\ UNCHANGED <<rerunVars, smsVars, placeVars>>
    \/ rerun_stage = "tweet_grouper" /\ Grouper(1)
    \/ rerun_stage = "tweet_grouper" /\ GrouperNoConnection(1)
                                     /\ UNCHANGED <<rerunVars, smsVars, placeVars>>
    \/ rerun_stage = "tweet_geocoder_new" /\ Geocoder
    \/ rerun_stage = "tweet_geocoder_new" /\ GeocoderNoConnection
                                          /\ UNCHANGED <<rerunVars, smsVars, placeVars>>
    \/ rerun_stage = "tweet_geocoder_1" /\ FirstGeocoder
    \/ rerun_stage = "tweet_geocoder_1" /\ GeocoderNoConnection
                                        /\ UNCHANGED <<rerunVars, smsVars, placeVars>>
    \/ rerun_stage = "tweets_geocoder" /\ PlaceGeocoder
    \/ rerun_stage = "tweets_geocoder" /\ PlacesNoConnection
                                       /\ UNCHANGED <<rerunVars, smsVars>>

StartupSpec == StartupInit /\ [][StartupNext]_vars

(***************************************************************************)
(* The ingestion of the SMS messages: load_sms_data.py run any number of   *)
(* times over files that hold any of the messages.                         *)
(***************************************************************************)
LoadSpec == IntakeInit /\ [][Loader]_vars

(***************************************************************************)
(* Properties of the clustering stage.                                     *)
(***************************************************************************)
MemberIds(k) == Range(final_report[k].source_incident_ids)

InRun == { "fetched", "loop", "inserted" }

\* C1: in every state of the store, also one a terminated run left, every
\* report id an Event lists is a report with status 'grouped' (the Event and
\* the status of its members are written as one step).
C1_MembersGroupedWithEvent ==
    \A k \in 1..Len(final_report) : \A i \in MemberIds(k) :
        /\ i \in DOMAIN incident_reports
        /\ incident_reports[i].status = "grouped"

\* C2: with runs terminated at any point and the stage run again, no report
\* id is listed by two Events, and every listed id is a report of the store.
C2_NoReportInTwoEvents ==
    /\ \A k \in 1..Len(final_report) : MemberIds(k) \subseteq DOMAIN incident_reports
    /\ \A j, k \in 1..Len(final_report) : j # k => MemberIds(j) \cap MemberIds(k) = {}

\* C3: two invocations of the clustering stage are never both between their
\* fetch of the unprocessed reports and their last status update.
C3_MutualExclusion ==
    \A p, q \in Runners : p # q => ~(gpc[p] \in InRun /\ gpc[q] \in InRun)

\* C4: a run reads only 'unprocessed' reports, and no step of it changes or
\* removes an Event that exists, or adds an Event for reports an existing
\* Event already lists.
C4_EventsNeverAlteredOrDuplicated ==
    [][ /\ \A p \in Runners :
              incidents'[p] # incidents[p] =>
                  \A i \in Range(incidents'[p]) : incident_reports[i].status = "unprocessed"
        /\ Len(final_report') >= Len(final_report)
        /\ \A k \in 1..Len(final_report) : final_report'[k] = final_report[k]
        /\ \A k \in (Len(final_report) + 1)..Len(final_report') :
              \A j \in 1..Len(final_report) :
                  Range(final_report'[k].source_incident_ids) \cap MemberIds(j) = {}
      ]_vars

\* C5: once a run of the clustering stage has ended, after any number of
\* terminated runs before it, every cluster has exactly one Event (no two
\* Events for the same reports) and no Event is half committed (each member
\* of an Event is 'grouped').
C5_ExactlyOnceAfterRestart ==
    gpc[1] = "done" =>
        /\ \A j, k \in 1..Len(final_report) :
              j # k => final_report[j].source_incident_ids # final_report[k].source_incident_ids
        /\ \A k \in 1..Len(final_report) : \A i \in MemberIds(k) :
              incident_reports[i].status = "grouped"

(***************************************************************************)
(* Properties of the dispatch workflow.                                    *)
(***************************************************************************)
\* request k of the log is a dispatch (or complete) the server answered with success
Succeeded(k, op) ==
    /\ http_log[k].op = op
    /\ http_log[k].response.json
    /\ http_log[k].response.success

\* requests j < k of the log address the same id and no request between them does
Successive(j, k) ==
    /\ j < k
    /\ http_log[j].id = http_log[k].id
    /\ \A m \in (j + 1)..(k - 1) : http_log[m].id # http_log[j].id

\* C7: a dispatch action answered with success turns 'reported' into
\* 'dispatched' and 'dispatched' into 'reported', the new_status it returns is
\* the status the row then has, and the second of two successive dispatch
\* actions on one id leaves the row with the status it had before the first.
C7_DispatchIsSymmetricToggle ==
    \A j \in 1..Len(http_log) :
        Succeeded(j, "dispatch") =>
            /\ http_log[j].response.new_status = http_log[j].after
            /\ http_log[j].before = "reported" => http_log[j].after = "dispatched"
            /\ http_log[j].before = "dispatched" => http_log[j].after = "reported"
            /\ \A k \in 1..Len(http_log) :
                  /\ Successive(j, k)
                  /\ Succeeded(k, "dispatch")
                  /\ http_log[j].before \in { "reported", "dispatched" }
                  => http_log[k].after = http_log[j].before

\* two successive dispatch actions on a row that was 'reported'
C7_Witness ==
    \E j, k \in 1..Len(http_log) :
        /\ Successive(j, k)
        /\ Succeeded(j, "dispatch") /\ Succeeded(k, "dispatch")
        /\ http_log[j].before = "reported"
        /\ http_log[j].after = "dispatched"
        /\ http_log[k].after = "reported"

\* C8: a row with status 'completed' keeps it: no dispatch or complete action
\* changes the status of a completed row.
C8_CompletedIsTerminal ==
    [][ \A id \in RequestIds : StatusOf(id) = "completed" => StatusAfter(id) = "completed" ]_vars

\* C9: a dispatch or complete action on an id that has no row does not
\* report success, and leaves the id without a row.
C9_NoRowIsNotFound ==
    \A k \in 1..Len(http_log) :
        http_log[k].before = "absent" =>
            /\ ~(http_log[k].response.json /\ http_log[k].response.success)
            /\ http_log[k].after = "absent"

\* C10: a complete action answered with success on a row that exists leaves
\* the row 'completed', whether it was 'reported', 'dispatched' or already
\* 'completed'.
C10_CompleteSetsCompleted ==
    \A k \in 1..Len(http_log) :
        Succeeded(k, "complete") /\ http_log[k].before # "absent" =>
            http_log[k].after = "completed"

\* complete on a 'dispatched' row, and complete on the same row again
C10_Witness ==
    \E j, k \in 1..Len(http_log) :
          /\ Successive(j, k)
          /\ Succeeded(j, "complete") /\ Succeeded(k, "complete")
          /\ http_log[j].before = "dispatched"
          /\ http_log[k].before = "completed" /\ http_log[k].after = "completed"

(***************************************************************************)
(* Properties of a stage run twice.                                        *)
(***************************************************************************)
\* C6: for every stage, when the stage has been run to its end, a
\* snapshot of all tables taken, and the stage run to its end again, the
\* tables equal the snapshot.
C6_RerunLeavesSnapshot ==
    runs_completed = 2 => AllTables = snapshot

(***************************************************************************)
(* Properties of the dashboard's read endpoint and of an unreachable store. *)
(***************************************************************************)
\* the ids of the rows of a geocoded_tweets table that have coordinates and
\* are not 'completed'
ActiveIds(table) ==
    { i \in DOMAIN table : HasCoordinates(table[i]) /\ table[i].status # "completed" }

\* C11: every GET /api/incidents that reached the store returned exactly the
\* geocoded_tweets rows with non-null latitude and longitude and a status
\* other than 'completed'; a completed row is never in the list.
C11_ListIsActiveRows ==
    \A k \in 1..Len(http_log) :
        http_log[k].op = "incidents" /\ http_log[k].read = "rows" =>
            { r.source_report_id : r \in http_log[k].response.body }
                = ActiveIds(http_log[k].table)

\* C12: a request served while the store is unreachable changes no row; if
\* it is a GET /api/incidents it is answered with the empty array, if it is a
\* dispatch or a complete it is answered with a JSON object with success =
\* false.
C12_UnreachableStore ==
    [][ \A k \in DOMAIN http_log' \ DOMAIN http_log :
            http_log'[k].read = "unreachable" =>
                /\ AllTablesAfter = AllTables
                /\ http_log'[k].response.json
                /\ http_log'[k].op = "incidents" => http_log'[k].response.body = {}
                /\ http_log'[k].op \in { "dispatch", "complete" } =>
                       /\ http_log'[k].response.success = FALSE
                       /\ http_log'[k].response.error # "none"
      ]_vars

\* all three endpoints served with the store unreachable while it holds a row
C12_Witness ==
    /\ geocoded_tweets # << >>
    /\ \A op \in { "incidents", "dispatch", "complete" } :
          \E k \in 1..Len(http_log) :
              http_log[k].op = op /\ http_log[k].read = "unreachable"

(***************************************************************************)
(* Properties of the classification of the messages.                       *)
(***************************************************************************)
\* the tweets a run of tweet_classify.py or of tweet_classify_processer.py
\* that starts in this step selects
SelectedByNewRun ==
    (IF cpc \in NotRunning THEN Range(tweets_to_classify') ELSE {})
        \cup (IF wpc \in NotRunning THEN Range(workflow_tweets') ELSE {})

\* C13: a message whose handling by a classifier run came to its end is no
\* longer 'unclassified', whatever the label was ('Actionable', 'Noise' or
\* 'Error'); when a run has completed no message is 'unclassified'; and no
\* run that starts later selects a message so advanced, one labelled 'Error'
\* included.
C13_AdvancedWhateverLabel ==
    /\ [](\A t \in DOMAIN tweets : marked_as[t] # {} => tweets[t].status # "unclassified")
    /\ [](cpc = "done" \/ wpc = "done" =>
             \A t \in DOMAIN tweets : tweets[t].status # "unclassified")
    /\ [][\A t \in SelectedByNewRun : marked_as[t] = {}]_vars

\* every message advanced, one of them after the label 'Error', and both
\* scripts at the end of a run
C13_Witness ==
    /\ \E t \in DOMAIN tweets : "Error" \in marked_as[t]
    /\ \A t \in DOMAIN tweets : marked_as[t] # {}
    /\ cpc = "done"
    /\ wpc = "done"

\* C14: an actionable_tweets row is created for a source id only in a step
\* in which the classifier returned 'Actionable' for that message; with both
\* classifier scripts run, terminated and run again in any order, no two rows
\* have the same source id, and no row is changed or removed once created.
C14_ActionableOncePerSource ==
    /\ [](\A j, k \in 1..Len(actionable_tweets) :
             j # k => actionable_tweets[j].source_tweet_id
                          # actionable_tweets[k].source_tweet_id)
    /\ [][ /\ Len(actionable_tweets') >= Len(actionable_tweets)
           /\ \A k \in 1..Len(actionable_tweets) :
                 actionable_tweets'[k] = actionable_tweets[k]
           /\ \A k \in (Len(actionable_tweets) + 1)..Len(actionable_tweets') :
                 /\ last_call'.call = "classify"
                 /\ classify_text(last_call'.outcome) = "Actionable"
                 /\ last_call'.tweet = actionable_tweets'[k].source_tweet_id
         ]_vars

\* both scripts have inserted for the same message, labelled 'Actionable' by
\* each, and there is one row
C14_Witness ==
    /\ cpc = "classified" /\ classification = "Actionable"
    /\ wpc = "classified" /\ workflow_classification = "Actionable"
    /\ Head(tweets_to_classify) = Head(workflow_tweets)
    /\ Len(actionable_tweets) = 1
    /\ actionable_tweets[1].source_tweet_id = Head(workflow_tweets)

(***************************************************************************)
(* Properties of the status values.                                        *)
(***************************************************************************)
\* C15: no step of any stage changes the status of a tweet from 'classified'
\* or 'processed' to 'unclassified', nor the status of an incident report
\* from 'grouped' to 'unprocessed'.
C15_StatusMovesForward ==
    [][ /\ \A t \in DOMAIN tweets :
              tweets[t].status # "unclassified" => tweets'[t].status # "unclassified"
        /\ \A i \in DOMAIN incident_reports :
              incident_reports[i].status = "grouped"
                  => incident_reports'[i].status = "grouped"
      ]_vars

\* a store with a tweet that a run has marked 'classified', a tweet marked
\* 'processed' and grouped reports
C15_Witness ==
    /\ \E t \in DOMAIN tweets : tweets[t].status = "classified" /\ marked_as[t] # {}
    /\ \E t \in DOMAIN tweets : tweets[t].status = "processed"
    /\ \E i \in DOMAIN incident_reports : incident_reports[i].status = "grouped"

(***************************************************************************)
(* Properties of the extraction and of the collaborator failures.          *)
(***************************************************************************)
\* C16: there is at most one incident_reports row per source tweet id, and
\* no step of any extractor script, in any interleaving, changes or removes a
\* row that is in the table: rows are only added.
C16_ReportOncePerSource ==
    /\ [](\A j, k \in 1..Len(incident_reports) :
             j # k => incident_reports[j].original_tweet_id
                          # incident_reports[k].original_tweet_id)
    /\ [][ /\ Len(incident_reports') >= Len(incident_reports)
           /\ \A k \in 1..Len(incident_reports) :
                 incident_reports'[k] = incident_reports[k] ]_vars

\* an extraction gave a report for a tweet whose row, written by an earlier
\* extraction, holds other fields: the second INSERT met the conflict
C16_Witness ==
    /\ last_call.call = "extract"
    /\ Truthy(extract_incident_details(last_call.outcome))
    /\ extract_incident_details(last_call.outcome).object
    /\ \E k \in 1..Len(incident_reports) :
          /\ incident_reports[k].original_tweet_id = last_call.tweet
          /\ incident_reports[k] #
                NewIncidentReport(Report(last_call.tweet,
                                         extract_incident_details(last_call.outcome)))

\* C17: every incident_reports row refers to a tweet for which the classifier
\* returned "Actionable"; stated for the tweets whose classification is over
\* (status no longer 'unclassified'): such a tweet with a row has an
\* actionable_tweets row.
C17_ReportsOnlyForActionable ==
    \A k \in 1..Len(incident_reports) :
        tweets[incident_reports[k].original_tweet_id].status # "unclassified"
            => incident_reports[k].original_tweet_id \in ActionableIds

\* a step in which an extractor script took the answer of the extraction
\* collaborator for a tweet and went on (last_call' is that call)
ExtractionEnded ==
    \/ /\ epc = "loop"
       /\ epc' \in {"loop", "done"}
       /\ tweets_to_process' = Tail(tweets_to_process)
    \/ wpc = "loop" /\ wpc' = "extracted"

\* C18: after an extraction whose call raised or whose answer could not be
\* parsed there is an incident_reports row for the tweet, and if this step
\* wrote it its three fields are 'Extraction Failed'; a parsed answer that
\* lacks a key gets 'Extraction Failed' for that key and the answer's values
\* for the others.
C18_FailedExtractionReported ==
    [][ ExtractionEnded =>
          LET extracted_data == extract_incident_details(last_call'.outcome)
              written == { k \in 1..Len(incident_reports') :
                             incident_reports'[k].original_tweet_id = last_call'.tweet }
              new == { k \in written : k > Len(incident_reports) }
          IN  /\ ~extracted_data.parsed =>
                    /\ written # {}
                    /\ \A k \in new :
                          /\ incident_reports'[k].extracted_location = "Extraction Failed"
                          /\ incident_reports'[k].extracted_issue = "Extraction Failed"
                          /\ incident_reports'[k].issue_time = "Extraction Failed"
              /\ Truthy(extracted_data) =>
                    \A k \in new :
                       /\ incident_reports'[k].extracted_location
                             = Get(extracted_data.data, "location", "Extraction Failed")
                       /\ incident_reports'[k].extracted_issue
                             = Get(extracted_data.data, "issue", "Extraction Failed")
                       /\ incident_reports'[k].issue_time
                             = Get(extracted_data.data, "time", "Extraction Failed")
      ]_vars

\* the answers of the extraction collaborator that are unparseable or
\* incomplete: no JSON, an object without a key, an object with no key
BadExtractOutcomes == { "unparseable", "missing_location", "empty_object" }

\* C19: when the extraction collaborator's answer for a tweet is unparseable
\* or incomplete, tweet_processer_1.py advances the tweet: after the step the
\* tweet has an incident_reports row, so that no later run of the script
\* selects it.
C19_BadResponseAdvanced ==
    [][ /\ epc = "loop"
        /\ epc' \in {"loop", "done"}
        /\ tweets_to_process' = Tail(tweets_to_process)
        /\ last_call'.outcome \in BadExtractOutcomes
        => \E k \in 1..Len(incident_reports') :
               incident_reports'[k].original_tweet_id = last_call'.tweet
      ]_vars

\* C20: when the collaborator call of a script raises for a tweet (a network
\* or configuration error), the step writes no row, and the script does not
\* advance the status of the tweet: an 'unclassified' tweet stays
\* 'unclassified' and a run that starts later selects it.
C20_FailedCallRetried ==
    /\ [][ /\ \/ cpc = "loop" /\ cpc' = "classified"
              \/ wpc = "loop" /\ wpc' = "extracted"
              \/ wpc = "extracted" /\ wpc' = "classified"
           /\ last_call'.outcome = "raise"
           => /\ actionable_tweets' = actionable_tweets
              /\ incident_reports' = incident_reports ]_vars
    /\ [][ \A t \in DOMAIN tweets :
              /\ last_call = [script |-> "tweet_classify", tweet |-> t,
                              call |-> "classify", outcome |-> "raise"]
              /\ cpc = "classified"
              /\ cpc' \in {"loop", "done"}
              /\ tweets[t].status = "unclassified"
              => tweets'[t].status = "unclassified" ]_vars
    /\ [][ \A t \in DOMAIN tweets :
              /\ last_call = [script |-> "tweet_classify_processer", tweet |-> t,
                              call |-> "classify", outcome |-> "raise"]
              /\ wpc = "classified"
              /\ wpc' \in {"loop", "done"}
              /\ tweets[t].status = "unclassified"
              => tweets'[t].status = "unclassified" ]_vars

(***************************************************************************)
(* Properties of the batches.                                              *)
(***************************************************************************)
\* C21: a collaborator call for one item of the batch, whatever its answer,
\* does not end the run: after the step of tweet_processer_1.py that took the
\* answer, and after the step of tweet_geocoder_new.py that took the answer,
\* the items selected after this one are still to be handled by the run.
C21_FailureKeepsBatch ==
    /\ [][ /\ epc = "loop"
           /\ last_call' # last_call
           /\ last_call'.script = "tweet_processer_1"
           => tweets_to_process' = Tail(tweets_to_process) ]_vars
    /\ [][ geopc = "loop" /\ geopc' = "done" => Tail(reports_to_process) = << >> ]_vars

(***************************************************************************)
(* Properties of the clusters.                                             *)
(***************************************************************************)
\* the embeddings of the reports i and j are within eps of each other
Near(i, j) ==
    WithinEps(Embedding(CompositeText(incident_reports[i])),
              Embedding(CompositeText(incident_reports[j])))

\* the events that have the report i among their sources
EventsOf(i) ==
    { k \in 1..Len(final_report) : i \in Range(final_report[k].source_incident_ids) }

\* C22: in the clustering stage a report with no other report within eps is
\* in no event and stays 'unprocessed'; and when a run that clustered its
\* batch (the embedding collaborator answered) is over, for three reports of
\* which two are within eps of each other and the third within eps of
\* neither, there is exactly one event, its sources are the two, the two are
\* 'grouped' and the third is 'unprocessed'.
C22_NoiseLeftTwoMerged ==
    rerun_stage = "clustering" =>
        /\ \A i \in DOMAIN incident_reports :
              (\A j \in DOMAIN incident_reports \ {i} : ~Near(i, j))
                  => EventsOf(i) = {} /\ incident_reports[i].status = "unprocessed"
        /\ runs_completed >= 1 /\ ~retry_left /\ Len(incident_reports) = 3 =>
              \A i, j, k \in DOMAIN incident_reports :
                  i < j /\ k \notin {i, j} /\ Near(i, j) /\ ~Near(i, k) /\ ~Near(j, k)
                      => /\ Len(final_report) = 1
                         /\ Range(final_report[1].source_incident_ids) = {i, j}
                         /\ incident_reports[i].status = "grouped"
                         /\ incident_reports[j].status = "grouped"
                         /\ incident_reports[k].status = "unprocessed"

\* a run over two near reports and a far one is over, with its event
C22_Witness ==
    /\ rerun_stage = "clustering"
    /\ runs_completed = 1
    /\ ~retry_left
    /\ Len(final_report) = 1
    /\ Len(incident_reports) = 3
    /\ \E i, j, k \in DOMAIN incident_reports :
          i < j /\ k \notin {i, j} /\ Near(i, j) /\ ~Near(i, k) /\ ~Near(j, k)

\* the sets of reports that the labels put together, the label -1 left out
Clusters(incs, labs) ==
    { { incs[k] : k \in { n \in 1..Len(labs) : labs[n] = label } } :
          label \in Range(labs) \ {NoiseLabel} }

\* the clusters of these reports when they come in id order
ClustersInIdOrder(incs) ==
    LET sorted == Ascending(Range(incs))
    IN  Clusters(sorted, DBSCAN(get_embeddings(texts_for_embedding(sorted))))

\* C23: whatever the order in which a run gets its reports, the clusters that
\* DBSCAN makes of them, and the clusters of the labels the run holds, are the
\* clusters of the same reports taken in id order: the partition depends on
\* the vectors only.
C23_PartitionWhateverOrder ==
    /\ gpc[1] = "fetched" =>
          Clusters(incidents[1], DBSCAN(get_embeddings(texts_for_embedding(incidents[1]))))
              = ClustersInIdOrder(incidents[1])
    /\ gpc[1] \in {"loop", "inserted"} =>
          Clusters(incidents[1], labels[1]) = ClustersInIdOrder(incidents[1])

\* a run holds three reports out of id order, and labels that make a cluster
\* and leave a report out
C23_Witness ==
    /\ gpc[1] = "loop"
    /\ Len(incidents[1]) = 3
    /\ incidents[1][1] > incidents[1][2]
    /\ Clusters(incidents[1], labels[1]) # {}
    /\ NoiseLabel \in Range(labels[1])

\* C24: the step of a clustering run in which the embedding collaborator
\* fails leaves every table as it was and ends the run: the run creates no
\* event and changes no status.
C24_EmbeddingFailureNoEffect ==
    [][ \A p \in Runners :
           gpc[p] = "fetched" /\ gpc'[p] = "done"
               => /\ final_report' = final_report
                  /\ incident_reports' = incident_reports
                  /\ incidents'[p] = << >> /\ todo'[p] = << >>
      ]_vars

\* a run is over that held reports DBSCAN puts together, and there is no
\* event and no grouped report: the embedding collaborator failed
C24_Witness ==
    /\ gpc[1] = "done"
    /\ ClustersInIdOrder(fetch_unprocessed_incidents) # {}
    /\ final_report = << >>
    /\ \A i \in DOMAIN incident_reports : incident_reports[i].status = "unprocessed"

\* C25: every cluster of a run gets its event, whatever summarize_cluster
\* made of the collaborator's answer: the step that handles a cluster inserts
\* one event whose sources are the cluster; an event of a failed summary
\* holds 'Could not generate summary.' and 'Error' and its members are
\* 'grouped' once the status update is done; and when a run that clustered
\* is over, every cluster has its event and its members are 'grouped'.
C25_FailedSummaryStillPersisted ==
    /\ [][ gpc[1] = "loop" /\ <<gpc[1], todo[1]>>' # <<gpc[1], todo[1]>>
           => /\ Len(final_report') = Len(final_report) + 1
              /\ LET event == final_report'[Len(final_report')]
                 IN  /\ event.source_incident_ids
                           = incident_ids_in_cluster(incidents[1], labels[1], Head(todo[1]))
                     /\ \E outcome \in SummarizeOutcomes :
                           /\ event.event_summary = summarize_cluster(outcome).summary
                           /\ event.event_location = summarize_cluster(outcome).location
         ]_vars
    /\ [](\A k \in 1..Len(final_report) :
             final_report[k].event_location = "Error"
                 => /\ final_report[k].event_summary = "Could not generate summary."
                    /\ \/ gpc[1] = "inserted" /\ k = Len(final_report)
                       \/ \A i \in Range(final_report[k].source_incident_ids) :
                             incident_reports[i].status = "grouped")
    /\ [](gpc[1] = "done" /\ final_report # << >>
             => \A cluster \in ClustersInIdOrder([i \in DOMAIN incident_reports |-> i]) :
                   /\ \E k \in 1..Len(final_report) :
                         Range(final_report[k].source_incident_ids) = cluster
                   /\ \A i \in cluster : incident_reports[i].status = "grouped")

\* a run is over whose first cluster got the event of a failed summary and
\* whose second cluster got its event after it
C25_Witness ==
    /\ gpc[1] = "done"
    /\ Len(final_report) = 2
    /\ final_report[1].event_location = "Error"
    /\ final_report[1].event_summary = "Could not generate summary."
    /\ \A i \in DOMAIN incident_reports : incident_reports[i].status = "grouped"

\* C26: every final_report row has at least one source incident id, and its
\* number_of_reports is the number of its source incident ids.
C26_EventCountsItsSources ==
    \A k \in 1..Len(final_report) :
        /\ final_report[k].source_incident_ids # << >>
        /\ final_report[k].number_of_reports = Len(final_report[k].source_incident_ids)

\* an event of two of the three reports
C26_Witness ==
    \E k \in 1..Len(final_report) :
        /\ Len(final_report[k].source_incident_ids) = 2
        /\ Len(incident_reports) > 2

(***************************************************************************)
(* Properties of the geocoding stage.                                      *)
(***************************************************************************)
\* a step in which tweet_geocoder_new.py took the answer of the geocoder for
\* the report at the head of its batch (last_call' is that call)
GeocodingEnded ==
    /\ geopc = "loop"
    /\ geopc' # "terminated"
    /\ reports_to_process' # reports_to_process

\* C27: when the geocoder answers not-found or with a request error, the
\* step writes no geocoded_tweets row, the run goes on with the next report,
\* and the report is still without a row, so that the fetch of a later run
\* selects it (a fetch selects every report without a row); when the
\* geocoder finds the place, the report has a row after the step, and no row
\* that was there is changed or removed.
C27_GeocodingSkipsAndRetries ==
    /\ [][ GeocodingEnded /\ last_call'.outcome \in {"not_found", "request_error"}
           => /\ geocoded_tweets' = geocoded_tweets
              /\ reports_to_process' = Tail(reports_to_process)
              /\ geopc' = (IF Tail(reports_to_process) = << >> THEN "done" ELSE "loop")
              /\ last_call'.tweet \notin DOMAIN geocoded_tweets' ]_vars
    /\ [][ (geopc = "schema") /\ (geopc' \in { "loop", "done" })
           => Range(reports_to_process')
                 = { k \in 1..Len(final_report) : k \notin DOMAIN geocoded_tweets } ]_vars
    /\ [][ GeocodingEnded /\ last_call'.outcome = "found"
           => /\ DOMAIN geocoded_tweets' = DOMAIN geocoded_tweets \cup {last_call'.tweet}
              /\ \A k \in DOMAIN geocoded_tweets : geocoded_tweets'[k] = geocoded_tweets[k] ]_vars

\* a report for which the geocoder's latest answer was a failure is in the
\* batch of a run that started after it
C27_Witness ==
    /\ last_call.script = "tweet_geocoder_new"
    /\ last_call.outcome \in {"not_found", "request_error"}
    /\ geopc = "loop"
    /\ last_call.tweet \in Range(reports_to_process)
    /\ geocoded_tweets # << >>

\* C28: a geocoded_tweets row has status 'reported' in the state in which it
\* appears, and no step of the geocoding script, first run or later run,
\* changes the status of a row that is there.
C28_GeocodingKeepsDispatchStatus ==
    /\ [][ \A k \in DOMAIN geocoded_tweets' \ DOMAIN geocoded_tweets :
              geocoded_tweets'[k].status = "reported" ]_vars
    /\ [][ <<geopc, reports_to_process, second_geopc, second_reports_to_process>>'
              # <<geopc, reports_to_process, second_geopc, second_reports_to_process>>
           => \A k \in DOMAIN geocoded_tweets :
                 /\ k \in DOMAIN geocoded_tweets'
                 /\ geocoded_tweets'[k].status = geocoded_tweets[k].status ]_vars

\* an invocation of the script holds in its batch a report whose row, written
\* since by the other invocation, the operators have dispatched or completed
C28_Witness ==
    /\ second_geopc = "loop"
    /\ Head(second_reports_to_process) \in DOMAIN geocoded_tweets
    /\ geocoded_tweets[Head(second_reports_to_process)].status \in {"dispatched", "completed"}

(***************************************************************************)
(* Properties of the stages run at once.                                   *)
(***************************************************************************)
\* what the store holds after complete runs of tweet_classify.py and
\* tweet_classify_processer.py one after the other: the run that comes first
\* takes every tweet, so that either every tweet is 'classified' and there is
\* no report, or every tweet is 'processed'
AsOneAfterTheOther ==
    \/ /\ \A t \in DOMAIN tweets : tweets[t].status = "classified"
       /\ incident_reports = << >>
    \/ \A t \in DOMAIN tweets : tweets[t].status = "processed"

\* C29: when the runs of the classifier script and of the script that
\* extracts, interleaved in any order, are over, the tables and the status
\* values are those that the runs give one after the other.
C29_ConcurrentAsSerial ==
    /\ cpc \in {"idle", "done"}
    /\ wpc \in {"idle", "done"}
    /\ cpc = "done" \/ wpc = "done"
    => AsOneAfterTheOther

(***************************************************************************)
(* Properties of the ingestion.                                            *)
(***************************************************************************)
\* C30: there is at most one sms_reports row per message sid; no step changes
\* or removes a row that is there, so that a row holds the values of the
\* first ingestion of its sid; a load stores a row for every sid of its file;
\* and a load of a file whose sids are all stored changes nothing.
C30_IngestionIdempotent ==
    /\ [](\A j, k \in 1..Len(sms_reports) :
             j # k => sms_reports[j].message_sid # sms_reports[k].message_sid)
    /\ [][ /\ Len(sms_reports') >= Len(sms_reports)
           /\ \A k \in 1..Len(sms_reports) : sms_reports'[k] = sms_reports[k] ]_vars
    /\ [][ lpc = "read" /\ lpc' = "done"
           => LET stored == { sms_reports[k].message_sid : k \in 1..Len(sms_reports) }
                  loaded == { sms_data_to_load[k].messageSid : k \in 1..Len(sms_data_to_load) }
              IN  /\ { sms_reports'[k].message_sid : k \in 1..Len(sms_reports') }
                        = stored \cup loaded
                  /\ loaded \subseteq stored => sms_reports' = sms_reports ]_vars

\* a load is over whose file held, for a sid, another body than the row of
\* the sid holds
C30_Witness ==
    /\ lpc = "done"
    /\ \E n \in 1..Len(sms_data_to_load), k \in 1..Len(sms_reports) :
          /\ sms_reports[k].message_sid = sms_data_to_load[n].messageSid
          /\ sms_reports[k].message_body # sms_data_to_load[n].body

(***************************************************************************)
(* Properties of the frame of the stages.                                  *)
(***************************************************************************)
\* C31: an incident_reports row is changed by no operation other than the
\* clustering stage setting its status to 'grouped': a step that changes a
\* row, its latitude and longitude included, changes its status only, to
\* 'grouped'.
C31_ReportChangedByClusteringOnly ==
    [][ \A i \in DOMAIN incident_reports :
           /\ (i \in DOMAIN incident_coordinates') = (i \in DOMAIN incident_coordinates)
           /\ i \in DOMAIN incident_coordinates
                 => incident_coordinates'[i] = incident_coordinates[i]
           /\ \/ incident_reports'[i] = incident_reports[i]
              \/ incident_reports'[i] = [incident_reports[i] EXCEPT !.status = "grouped"]
      ]_vars

\* C32: a dispatch or complete action creates no geocoded_tweets row, deletes
\* none, changes no row but the one of its id, and changes nothing of that
\* row but its status.
C32_DispatchChangesStatusOnly ==
    [][ http_log' # http_log =>
          LET request == http_log'[Len(http_log')]
          IN  /\ DOMAIN geocoded_tweets' = DOMAIN geocoded_tweets
              /\ \A id \in DOMAIN geocoded_tweets :
                    /\ id # request.id => geocoded_tweets'[id] = geocoded_tweets[id]
                    /\ geocoded_tweets'[id] =
                           [geocoded_tweets[id] EXCEPT !.status = geocoded_tweets'[id].status]
      ]_vars

\* a dispatch and a complete action have changed the status of one row, and
\* another row is there
C32_Witness ==
    /\ \E j, k \in 1..Len(http_log) :
          /\ Succeeded(j, "dispatch") /\ Succeeded(k, "complete")
          /\ http_log[j].id = http_log[k].id
          /\ http_log[j].before # http_log[j].after
          /\ http_log[k].before # http_log[k].after
          /\ \E id \in DOMAIN geocoded_tweets : id # http_log[j].id

(***************************************************************************)
(* Properties of a run started with the store unreachable.                 *)
(***************************************************************************)
\* C33: the step of a stage that fails to connect calls no collaborator and
\* writes nothing, and the run takes no step after it: the next step of the
\* stage is the start of a new run, which writes no row and calls no
\* collaborator either. This holds of the classifier, the classification
\* workflow, the extractor, the clustering stage and the three geocoders.
C33_NoConnectionNoWork ==
    /\ [][ \/ cpc' = "unreachable" /\ cpc # "unreachable"
           \/ gpc'[1] = "unreachable" /\ gpc[1] # "unreachable"
           => UNCHANGED <<tweets, actionable_tweets, incident_reports, final_report,
                          geocoded_tweets, geocoded_tweets_table, last_call, marked_as, tweets_to_classify,
                          incidents, labels, todo>> ]_vars
    /\ [][ (cpc = "unreachable") /\ cpc' # cpc
           => /\ cpc' \in {"loop", "done"}
              /\ UNCHANGED <<tweets, actionable_tweets, storeVars, callVars>> ]_vars
    /\ [][ (gpc[1] = "unreachable") /\ gpc'[1] # gpc[1]
           => /\ gpc'[1] \in {"fetched", "done"}
              /\ UNCHANGED <<tweets, actionable_tweets, storeVars, callVars>> ]_vars
    /\ [][ \/ wpc' = "unreachable" /\ wpc # "unreachable"
           \/ epc' = "unreachable" /\ epc # "unreachable"
           \/ geopc' = "unreachable" /\ geopc # "unreachable"
           \/ plpc' = "unreachable" /\ plpc # "unreachable"
           => UNCHANGED <<tweets, actionable_tweets, storeVars, incident_coordinates,
                          callVars, workflow_tweets, workflow_classification,
                          tweets_to_process, reports_to_process, places_to_find>> ]_vars
    /\ [][ (wpc = "unreachable") /\ wpc' # wpc
           => /\ wpc' \in {"loop", "done"}
              /\ UNCHANGED <<tweets, actionable_tweets, storeVars, callVars>> ]_vars
    /\ [][ (epc = "unreachable") /\ epc' # epc
           => /\ epc' \in {"loop", "done"}
              /\ UNCHANGED <<tweets, actionable_tweets, storeVars, callVars>> ]_vars
    /\ [][ (geopc = "unreachable") /\ geopc' # geopc
           => /\ geopc' \in {"schema", "first_schema"}
              /\ UNCHANGED <<tweets, actionable_tweets, incident_reports, final_report,
                             geocoded_tweets, callVars>> ]_vars
    /\ [][ (plpc = "unreachable") /\ plpc' # plpc
           => /\ plpc' \in {"loop", "done"}
              /\ UNCHANGED <<tweets, actionable_tweets, storeVars, incident_coordinates,
                             callVars>> ]_vars

\* the clustering stage has failed to connect with reports to cluster in the
\* store, after a run of it that made an Event
C33_Witness ==
    /\ rerun_stage = "tweet_grouper"
    /\ gpc[1] = "unreachable"
    /\ fetch_unprocessed_incidents # << >>
    /\ final_report # << >>

(***************************************************************************)
(* Properties of concurrent requests of the dashboard.                     *)
(***************************************************************************)
\* C34: the read and the write of a dispatch action are one atomic step: the
\* status a dispatch action writes is computed from the status the row has
\* when it is written, so that the row ends with the status that the
\* requests, applied one after the other in the order of their commits, give.
C34_DispatchReadAndWriteAtomic ==
    \A k \in 1..Len(http_log) :
        Succeeded(k, "dispatch") =>
            /\ http_log[k].read = http_log[k].before
            /\ http_log[k].after = NewStatus(http_log[k].before)

(***************************************************************************)
(* Properties of the selection of the geocoding stage.                     *)
(***************************************************************************)
\* C35: the fetch of a geocoding run selects exactly the Events that have no
\* geocoded_tweets row.
C35_SelectsEventsWithoutRow ==
    [][ (geopc \in { "schema", "first_schema" }) /\ (geopc' \in { "loop", "first_loop", "done" })
        => Range(reports_to_process')
               = { k \in DOMAIN final_report : k \notin DOMAIN geocoded_tweets } ]_vars

(***************************************************************************)
(* Properties of the rows of geocoded_tweets.                              *)
(***************************************************************************)
\* C36: in every reachable state the status of every geocoded_tweets row is
\* 'reported', 'dispatched' or 'completed'.
C36_StatusIsOneOfThree ==
    \A id \in DOMAIN geocoded_tweets :
        geocoded_tweets[id].status \in { "reported", "dispatched", "completed" }

\* a row that a complete action completed and dispatch actions have brought
\* back to 'reported'
C36_Witness ==
    /\ \E id \in DOMAIN geocoded_tweets : geocoded_tweets[id].status = "reported"
    /\ \E j, k \in 1..Len(http_log) :
          /\ j < k
          /\ Succeeded(j, "complete") /\ http_log[j].after = "completed"
          /\ Succeeded(k, "dispatch") /\ http_log[k].after = "reported"

\* C37: a geocoded_tweets row is inserted only after the geocoder returned a
\* result for its Event, and no row is created with a NULL latitude or a
\* NULL longitude.
C37_RowsHaveCoordinates ==
    [][ \A id \in DOMAIN geocoded_tweets' \ DOMAIN geocoded_tweets :
           /\ last_call'.tweet = id
           /\ last_call'.call = "geocode"
           /\ last_call'.script \in { "tweet_geocoder_new", "tweet_geocoder_1" }
           /\ get_coordinates(last_call'.outcome).found
           /\ HasCoordinates(geocoded_tweets'[id])
      ]_vars

(***************************************************************************)
(* Properties of the clusters as connected components.                     *)
(***************************************************************************)
\* the reports of S that a chain of reports of S, each within eps of the
\* next, joins to a report of C
RECURSIVE Joined(_, _)
Joined(S, C) ==
    LET more == { j \in S \ C : \E i \in C : Near(i, j) }
    IN  IF more = {} THEN C ELSE Joined(S, C \cup more)

\* the connected components, of MinSamples reports or more, of the graph
\* that joins the reports of S within eps of each other
Components(S) ==
    { c \in { Joined(S, {i}) : i \in S } : Cardinality(c) >= MinSamples }

\* C38: the clusters DBSCAN makes of the reports of a run, in whatever order
\* they come, and the clusters of the labels the run holds, are the
\* connected components of two reports or more of the within-eps graph; a
\* run that clustered its batch ends with exactly one Event for each
\* component, with exactly its members; every Event has two members or more
\* and no two Events share a member.
C38_ClustersAreComponents ==
    /\ [](gpc[1] = "fetched" =>
             Clusters(incidents[1], DBSCAN(get_embeddings(texts_for_embedding(incidents[1]))))
                 = Components(Range(incidents[1])))
    /\ [](gpc[1] \in {"loop", "inserted"} =>
             Clusters(incidents[1], labels[1]) = Components(Range(incidents[1])))
    /\ [][ (gpc[1] \in {"loop", "inserted"}) /\ gpc'[1] = "done"
           => /\ { Range(final_report'[k].source_incident_ids) : k \in 1..Len(final_report') }
                    = Components(Range(incidents[1]))
              /\ Len(final_report') = Cardinality(Components(Range(incidents[1]))) ]_vars
    /\ [](\A k \in 1..Len(final_report) :
             /\ Cardinality(Range(final_report[k].source_incident_ids)) >= 2
             /\ \A j \in 1..Len(final_report) :
                   j # k => Range(final_report[j].source_incident_ids)
                               \cap Range(final_report[k].source_incident_ids) = {})

\* a run is over that made two Events, one of three reports of which two are
\* not within eps of each other, and left a report out
C38_Witness ==
    /\ gpc[1] = "done"
    /\ Len(final_report) = 2
    /\ \E k \in 1..Len(final_report) :
          /\ Cardinality(Range(final_report[k].source_incident_ids)) = 3
          /\ \E i, j \in Range(final_report[k].source_incident_ids) : ~Near(i, j)
    /\ \E i \in DOMAIN incident_reports :
          incident_reports[i].status = "unprocessed" /\ EventsOf(i) = {}

====
